---------------------------- MODULE Spec2Model ----------------------------
(***************************************************************************)
(* Model of the knowledge-base service of memz                             *)
(* (src/KnowledgeB/knowledge_base.py): paragraph chunking, MD5 based       *)
(* deduplication, the in-process stats cache, and the ingestion paths      *)
(* (file, folder, git repository, website), search, stats and cache sync.  *)
(*                                                                         *)
(* Text is a sequence of one-character strings.  ChunkSpec checks the pure *)
(* function _chunk_content on every text up to MaxLen; Spec is the service *)
(* as a state machine, one action per public method.                       *)
(*                                                                         *)
(* The query backend (src/backend/app.py) is modelled next to it:          *)
(* QuerySpec calls Mem0Backend.process_query with every outcome of its     *)
(* collaborators; ApiSpec is the HTTP endpoints of both services           *)
(* (src/KnowledgeB/kb_api.py, src/backend/app.py), one action per route.   *)
(***************************************************************************)
EXTENDS Integers, Sequences, FiniteSets, Bags, TLC

VARIABLES
    c_content,      \* ChunkSpec: the text handed to _chunk_content
    c_size,         \* ChunkSpec: its chunk_size argument
    c_chunks,       \* ChunkSpec: the list it returned
    c_pc,           \* ChunkSpec: "call" before the call, "done" after it; "idle" in Spec
    processed_hashes,   \* self.processed_hashes: the Dedup Set
    stats_cache,        \* self.stats_cache
    store,              \* the entries self.memory holds (collection kb_memories), a bag
    fs,                 \* the file system: the value of every path of Files
    ingested,           \* history: for each file, chunks_processed of a successful
                        \* process_local_file on its present content, else -1
    last,               \* the last call: [op, arg, res, adds], adds the texts its add
                        \* calls were made for
    chat_memory,        \* backend.memory (collection user_memories): the interactions
                        \* process_query persisted, in order
    session,            \* the Flask session of each client: its session_id, or None
    session_cache,      \* session_cache of app.py: session id -> list of cache entries
    now,                \* the clock: the number of requests answered so far
    pq,                 \* QuerySpec: the last process_query call and what it did
    http,               \* ApiSpec: the last request and the response it got
    threads,            \* ThreadSpec: each request thread's position in
                        \* process_local_file and its local variables
    serial              \* ThreadSpec: TRUE when the calls run one at a time

chunk_vars == <<c_content, c_size, c_chunks, c_pc>>

\* what the actions of the service and of the endpoints leave alone
idle_vars == <<c_content, c_size, c_chunks, c_pc, threads, serial>>

svc_vars == <<processed_hashes, stats_cache, store, fs, ingested, last>>

app_vars == <<chat_memory, session, session_cache>>

api_vars == <<chat_memory, session, session_cache, now, pq, http>>

vars == <<c_content, c_size, c_chunks, c_pc,
          processed_hashes, stats_cache, store, fs, ingested, last,
          chat_memory, session, session_cache, now, pq, http, threads, serial>>

-----------------------------------------------------------------------------
(* Bounds of the model *)

\* most interactions backend.memory holds before the callers stop asking
MaxPersisted == 2

\* the session cache keeps 50 entries per session; the model divides by CacheScale
CacheScale == 25

SessionCacheLimit == 50 \div CacheScale

\* the requests the two HTTP services answer in ApiSpec: enough to fill the
\* cache of one session and to overflow it once
MaxRequests == SessionCacheLimit + 1

\* longest text handed to _chunk_content in ChunkSpec
MaxLen == 5

\* largest chunk_size tried in ChunkSpec
MaxChunkSize == 5

\* the chunk sizes of the service are the source's divided by Scale
Scale == 250

\* how many add calls of one service call can be told to raise (the first ones)
MaxAddCalls == 2

\* how many question/answer entries sync_cache_to_knowledge may leave in the store
MaxSynced == 2

-----------------------------------------------------------------------------
(* Characters and strings *)

NL == "\n"
SP == " "

\* the characters of the texts of ChunkSpec: two letters and two kinds of whitespace
Alphabet == {"a", "b", SP, NL}

\* str.strip() with no argument removes whitespace; of the modelled characters
\* the whitespace ones are the blank and the newline
IsSpace(c) == c \in {SP, NL}

\* the paragraph separator of content.split('\n\n')
ParaSep == <<NL, NL>>

Min(x, y) == IF x <= y THEN x ELSE y

RECURSIVE StringsOfLen(_)
StringsOfLen(n) ==
    IF n = 0 THEN {<<>>}
    ELSE {Append(s, c) : s \in StringsOfLen(n - 1), c \in Alphabet}

Strings(n) == UNION {StringsOfLen(k) : k \in 0..n}

\* s[i:j] of Python for 0 <= i, as a 1-based SubSeq clipped to the string
Slice(s, i, j) == SubSeq(s, i + 1, Min(j, Len(s)))

StartsWith(s, p) == Len(p) <= Len(s) /\ SubSeq(s, 1, Len(p)) = p

EndsWith(s, p) == Len(p) <= Len(s) /\ SubSeq(s, Len(s) - Len(p) + 1, Len(s)) = p

\* `sub in s` of Python
Contains(s, sub) ==
    \E i \in 1..(Len(s) - Len(sub) + 1) : SubSeq(s, i, i + Len(sub) - 1) = sub

\* str.split(sep) for a non-empty sep: non-overlapping occurrences, left to right;
\* i scans, start is where the current piece began
RECURSIVE SplitFrom(_, _, _, _)
SplitFrom(s, sep, i, start) ==
    IF i + Len(sep) - 1 > Len(s) THEN <<SubSeq(s, start, Len(s))>>
    ELSE IF SubSeq(s, i, i + Len(sep) - 1) = sep
         THEN <<SubSeq(s, start, i - 1)>>
                  \o SplitFrom(s, sep, i + Len(sep), i + Len(sep))
         ELSE SplitFrom(s, sep, i + 1, start)

Split(s, sep) == SplitFrom(s, sep, 1, 1)

\* sep.join(parts)
RECURSIVE Join(_, _)
Join(parts, sep) ==
    IF parts = <<>> THEN <<>>
    ELSE IF Len(parts) = 1 THEN parts[1]
    ELSE parts[1] \o sep \o Join(Tail(parts), sep)

RECURSIVE LStrip(_)
LStrip(s) == IF s # <<>> /\ IsSpace(Head(s)) THEN LStrip(Tail(s)) ELSE s

RECURSIVE RStrip(_)
RStrip(s) ==
    IF s # <<>> /\ IsSpace(s[Len(s)]) THEN RStrip(SubSeq(s, 1, Len(s) - 1)) ELSE s

\* str.strip()
Strip(s) == RStrip(LStrip(s))

-----------------------------------------------------------------------------
(* _chunk_content *)

RECURSIVE ChunkLoop(_, _, _, _, _)

\* ChunkLoop that appends a paragraph when the lengths add up to chunk_size
ChunkLoop_UpToChunkSize(paragraphs, i, chunks, current_chunk, chunk_size) ==
    IF i > Len(paragraphs) THEN <<chunks, current_chunk>>
    ELSE LET para == paragraphs[i] IN
         IF Len(current_chunk) + Len(para) <= chunk_size
         THEN ChunkLoop(paragraphs, i + 1, chunks,
                        current_chunk \o para \o ParaSep, chunk_size)
         ELSE ChunkLoop(paragraphs, i + 1,
                  IF current_chunk # <<>>
                  THEN Append(chunks, Strip(current_chunk)) ELSE chunks,
                  para \o ParaSep, chunk_size)

\* the loop `for para in paragraphs` from its i-th paragraph on: the pair
\* <<chunks, current_chunk>> it leaves
ChunkLoop(paragraphs, i, chunks, current_chunk, chunk_size) ==
    IF i > Len(paragraphs) THEN <<chunks, current_chunk>>
    ELSE LET para == paragraphs[i] IN
         IF Len(current_chunk) + Len(para) < chunk_size
         THEN ChunkLoop(paragraphs, i + 1, chunks,
                        current_chunk \o para \o ParaSep, chunk_size)
         ELSE ChunkLoop(paragraphs, i + 1,
                  IF current_chunk # <<>>
                  THEN Append(chunks, Strip(current_chunk)) ELSE chunks,
                  para \o ParaSep, chunk_size)

\* [content[i:i+chunk_size] for i in range(0, len(content), chunk_size)]
RECURSIVE FixedSlices(_, _, _)
FixedSlices(content, i, chunk_size) ==
    IF i >= Len(content) THEN <<>>
    ELSE <<Slice(content, i, i + chunk_size)>>
             \o FixedSlices(content, i + chunk_size, chunk_size)

\* SealLast without the trimming of the last buffer
SealLast_Untrimmed(looped) ==
    IF looped[2] # <<>> THEN Append(looped[1], looped[2]) ELSE looped[1]

\* if current_chunk: chunks.append(current_chunk.strip()), after the loop left
\* looped = <<chunks, current_chunk>>
SealLast(looped) ==
    IF looped[2] # <<>> THEN Append(looped[1], Strip(looped[2])) ELSE looped[1]

\* if not chunks: chunks = [the fixed-size slices]
SplitBySize(content, chunk_size, chunks) ==
    IF chunks = <<>> THEN FixedSlices(content, 0, chunk_size) ELSE chunks

\* _chunk_content without the sealing of the last buffer
_chunk_content_Unsealed(content, chunk_size) ==
    SplitBySize(content, chunk_size,
        ChunkLoop(Split(content, ParaSep), 1, <<>>, <<>>, chunk_size)[1])

_chunk_content(content, chunk_size) ==
    SplitBySize(content, chunk_size,
        SealLast(ChunkLoop(Split(content, ParaSep), 1, <<>>, <<>>, chunk_size)))

-----------------------------------------------------------------------------
(* Paths (pathlib.Path): a path is the sequence of its parts *)

Max(S) == CHOOSE x \in S : \A y \in S : y <= x

\* str.lower() on the characters of the model
LowerChar(c) ==
    CASE c = "P" -> "p" [] c = "F" -> "f" [] c = "W" -> "w"
      [] c = "Q" -> "q" [] c = "A" -> "a" [] OTHER -> c

Lower(s) == [i \in DOMAIN s |-> LowerChar(s[i])]

RootPart == <<"/">>

\* str(path)
PathStr(path) ==
    IF path # <<>> /\ path[1] = RootPart
    THEN <<"/">> \o Join(Tail(path), <<"/">>)
    ELSE Join(path, <<"/">>)

\* path.name
Name(path) == path[Len(path)]

\* path.suffix: from the last dot of the name, unless it leads or ends the name
Suffix(path) ==
    LET name == Name(path)
        dots == {i \in 1..Len(name) : name[i] = "."}
        i    == IF dots = {} THEN 0 ELSE Max(dots)
    IN  IF i > 1 /\ i < Len(name) THEN SubSeq(name, i, Len(name)) ELSE <<>>

\* the file types process_local_file reads as text
TextFileTypes == {<<".", "t", "x", "t">>,
                  <<".", "m", "d">>,
                  <<".", "j", "s", "o", "n">>,
                  <<".", "p", "y">>,
                  <<".", "j", "s">>,
                  <<".", "h", "t", "m", "l">>,
                  <<".", "c", "s", "s">>,
                  <<".", "y", "m", "l">>,
                  <<".", "y", "a", "m", "l">>,
                  <<".", "t", "f">>,
                  <<".", "t", "f", "v", "a", "r", "s">>}

PdfFileType == <<".", "p", "d", "f">>

\* the file types process_local_file reads as Word documents
WordFileTypes == {<<".", "d", "o", "c", "x">>, <<".", "d", "o", "c">>}

\* the default of process_folder's extensions argument
DefaultExtensions == {<<".", "t", "x", "t">>,
                      <<".", "m", "d">>,
                      <<".", "p", "d", "f">>,
                      <<".", "d", "o", "c", "x">>,
                      <<".", "p", "y">>,
                      <<".", "j", "s">>,
                      <<".", "j", "s", "o", "n">>,
                      <<".", "h", "t", "m", "l">>,
                      <<".", "c", "s", "s">>,
                      <<".", "t", "f">>,
                      <<".", "t", "f", "v", "a", "r", "s">>,
                      <<".", "y", "m", "l">>,
                      <<".", "y", "a", "m", "l">>}

\* the substrings of a path process_folder ignores
IgnorePatterns == {<<"n", "o", "d", "e", "_", "m", "o", "d", "u", "l", "e", "s">>,
                   <<"_", "_", "p", "y", "c", "a", "c", "h", "e", "_", "_">>,
                   <<"v", "e", "n", "v">>,
                   <<".", "g", "i", "t">>}

-----------------------------------------------------------------------------
(* MD5 *)

\* every character of the model, giving each its code
AllChars == 
    <<"a", "b", "c", "d", "e", "f", "g", "h", "i", "j", "k", "l", "m", "n", "o", "p", "q", "r", "s", "t">>
    \o <<"u", "v", "w", "x", "y", "z", "0", "1", "2", "3", "4", "5", "6", "7", "8", "9", " ", "\n", ".", "/">>
    \o <<":", "_", "P", "F", "W", "Q", "A">>

CharCode(c) == CHOOSE i \in 1..Len(AllChars) : AllChars[i] = c

HexDigits == <<"0", "1", "2", "3", "4", "5", "6", "7", "8", "9", "a", "b", "c", "d", "e", "f">>

Hex2(n) == <<HexDigits[(n \div 16) + 1], HexDigits[(n % 16) + 1]>>

\* hashlib.md5(s.encode()).hexdigest(): a hex string that is a function of the
\* text alone. MD5 is taken to be free of collisions on the texts of the model:
\* the digest is the hex digits of the character codes.
RECURSIVE Md5Hex(_)
Md5Hex(s) == IF s = <<>> THEN <<>> ELSE Hex2(CharCode(Head(s))) \o Md5Hex(Tail(s))

-----------------------------------------------------------------------------
(* The file system and the remote repository *)

DirD == <<RootPart, <<"d">>>>

FileA == DirD \o <<<<"a", ".", "t", "x", "t">>>>

FileB == DirD \o <<<<"b", ".", "p", "d", "f">>>>

FileC == DirD \o <<<<"c", ".", "e", "x", "e">>>>

\* a file under a hidden directory
FileH == DirD \o <<<<".", "h">>, <<"e", ".", "m", "d">>>>

\* a path nothing exists at
MissingPath == <<RootPart, <<"x">>>>

RepoUrl == <<"h", "t", "t", "p", ":", "/", "/", "g", "/", "r">>

SiteUrl == <<"h", "t", "t", "p", ":", "/", "/", "w", "/", "p">>

BranchMain == <<"m", "a", "i", "n">>

BranchDev == <<"d", "e", "v">>

\* temp_dir of process_git_repo: Path("../temp_repos") / md5(repo_url).hexdigest()
TempDir(repo_url) == <<<<".", ".">>, <<"t", "e", "m", "p", "_", "r", "e", "p", "o", "s">>, Md5Hex(repo_url)>>

\* the two files of a working copy of RepoUrl: git's HEAD and the one tracked file
HeadFile == TempDir(RepoUrl) \o <<<<".", "g", "i", "t">>, <<"H", "E", "A", "D">>>>

RepoFile == TempDir(RepoUrl) \o <<<<"r", ".", "m", "d">>>>

\* source files outside DirD: a script, a Word document and a file named by a
\* relative path
ScriptFile == <<RootPart, <<"s">>, <<"m", ".", "p", "y">>>>

WordFile == <<RootPart, <<"s">>, <<"w", ".", "d", "o", "c", "x">>>>

RelativeFile == <<<<"s">>, <<"n", ".", "j", "s", "o", "n">>>>

SourceFiles == {ScriptFile, WordFile, RelativeFile}

\* every file path of the model, in the order rglob('*') yields them
AllFiles == <<FileA, FileB, FileC, FileH, HeadFile, RepoFile, ScriptFile, WordFile,
              RelativeFile>>

Files == {AllFiles[i] : i \in DOMAIN AllFiles}

\* the local files the environment rewrites
LocalFiles == {FileA, FileB}

NoFile == [kind |-> "none", body |-> <<>>]

\* a file no read or extraction succeeds on (no permission, a corrupt document)
BadFile == [kind |-> "bad", body |-> <<>>]

TextFile(text) == [kind |-> "text", body |-> text]

\* a PDF document: the texts of its pages
PdfFile(pages) == [kind |-> "pdf", body |-> pages]

\* a Word document: the texts of its paragraphs
DocxFile(paragraphs) == [kind |-> "docx", body |-> paragraphs]

\* the text of FileA: three chunks, the last a repetition of the first
Texts == {<<"a", "\n", "\n", "b", "\n", "\n", "a">>}

\* the documents of FileB: an empty page and a page of text
PdfDocs == {<<<<>>, <<"b">>>>}

\* what the environment can put at a path
ValuesOf(path) ==
    CASE path = FileA -> {BadFile} \cup {TextFile(t) : t \in Texts}
      [] path = FileB -> {PdfFile(d) : d \in PdfDocs}
      [] path = FileC -> {TextFile(<<"b">>)}
      [] path = FileH -> {TextFile(<<"b">>)}
      [] OTHER -> {NoFile}

\* the tracked file of RepoUrl on each branch of the remote
RemoteFile(branch) ==
    IF branch = BranchMain THEN TextFile(<<"a">>) ELSE TextFile(<<"b">>)

IsPrefix(p, q) == Len(p) <= Len(q) /\ SubSeq(q, 1, Len(p)) = p

\* path.is_file()
IsFile(f, path) == path \in Files /\ f[path].kind # "none"

\* a directory exists when a file exists below it
IsDir(f, path) ==
    \E q \in Files : f[q].kind # "none" /\ IsPrefix(path, q) /\ Len(path) < Len(q)

\* path.exists()
Exists(f, path) == IsFile(f, path) \/ IsDir(f, path)

\* path.rglob('*') restricted to files, in traversal order
RGlobFiles(f, path) ==
    SelectSeq(AllFiles, LAMBDA q : IsFile(f, q) /\ IsPrefix(path, q) /\ Len(path) < Len(q))

-----------------------------------------------------------------------------
(* Text extraction *)

\* str(n) for a page number
IntStr(n) == <<HexDigits[n + 1]>>

\* _extract_pdf_content: the non-empty pages, each under its "Page n:" heading
RECURSIVE PdfPages(_, _)
PdfPages(pages, page_num) ==
    IF page_num >= Len(pages) THEN <<>>
    ELSE LET text == pages[page_num + 1] IN
         (IF Strip(text) # <<>>
          THEN <<<<"P", "a", "g", "e", " ">> \o IntStr(page_num + 1) \o <<":", "\n">> \o text>>
          ELSE <<>>) \o PdfPages(pages, page_num + 1)

_extract_pdf_content(pages) == Join(PdfPages(pages, 0), ParaSep)

\* _extract_word_content: the paragraphs joined by single newlines
_extract_word_content(paragraphs) == Join(paragraphs, <<NL>>)

\* the branches of process_local_file that read the file: [ok, content], ok
\* FALSE when the read or the extraction raises
ReadContent(f, path, file_type) ==
    LET v == IF path \in Files THEN f[path] ELSE BadFile IN
    IF file_type \in TextFileTypes
    THEN [ok |-> v.kind = "text", content |-> IF v.kind = "text" THEN v.body ELSE <<>>]
    ELSE IF file_type = PdfFileType
    THEN [ok |-> v.kind = "pdf",
          content |-> IF v.kind = "pdf" THEN _extract_pdf_content(v.body) ELSE <<>>]
    ELSE [ok |-> v.kind = "docx",
          content |-> IF v.kind = "docx" THEN _extract_word_content(v.body) ELSE <<>>]

-----------------------------------------------------------------------------
(* The ingestion pipeline: dedup, store, stats *)

\* chunk_size of process_local_file (1000) and of process_website (800), scaled
FileChunkSize == 1000 \div Scale

WebChunkSize == 800 \div Scale

\* content_hash = hashlib.md5(chunk.encode()).hexdigest()
ContentHash(chunk) == Md5Hex(chunk)

\* RememberHash that records nothing
RememberHash_Forgets(hashes, content_hash) == hashes

\* self.processed_hashes.add(content_hash)
RememberHash(hashes, content_hash) == hashes \cup {content_hash}

\* f"From {path.name}: {chunk}"
FileMemoryContent(path, chunk) == <<"F", "r", "o", "m", " ">> \o Name(path) \o <<":", " ">> \o chunk

\* f"Web content from {metadata['title']}: {chunk}"
WebMemoryContent(title, chunk) == <<"W", "e", "b", " ", "c", "o", "n", "t", "e", "n", "t", " ", "f", "r", "o", "m", " ">> \o title \o <<":", " ">> \o chunk

\* f"Q: {query}\nA: {response}"
QaMemoryContent(query, response) == <<"Q", ":", " ">> \o query \o <<"\n", "A", ":", " ">> \o response

\* self.memory.add(memory_content, user_id="knowledge_base", metadata=...) when it
\* succeeds. An entry keeps the chunk it was made from beside the text stored
\* (a question/answer entry has none); timestamps are left out.
MemoryAdd(entries, memory_content, chunk, metadata) ==
    entries (+) SetToBag({[memory_content |-> memory_content,
                           chunk          |-> chunk,
                           user_id        |-> "knowledge_base",
                           metadata       |-> metadata]})

\* dict.get(key, 0) on the per-source counters
SourceCount(sources, source_key) ==
    IF source_key \in DOMAIN sources THEN sources[source_key] ELSE 0

\* self.stats_cache["sources"][source_key] = ...get(source_key, 0) + 1
CountSource(sources, source_key) ==
    [k \in DOMAIN sources \cup {source_key} |->
        IF k = source_key THEN SourceCount(sources, source_key) + 1 ELSE sources[k]]

\* StatsWithSources without the recomputation of unique_sources
StatsWithSources_Stale(stats, sources) ==
    [total_chunks   |-> stats.total_chunks + 1,
     total_memories |-> stats.total_memories + 1,
     sources        |-> sources,
     unique_sources |-> stats.unique_sources]

\* the counters of self.stats_cache after a chunk was stored, given the
\* per-source counters as updated
StatsWithSources(stats, sources) ==
    [total_chunks   |-> stats.total_chunks + 1,
     total_memories |-> stats.total_memories + 1,
     sources        |-> sources,
     unique_sources |-> Cardinality(DOMAIN sources)]

\* the update of self.stats_cache after a chunk was stored
UpdateStatsCache(stats, source_key) ==
    StatsWithSources(stats, CountSource(stats.sources, source_key))

\* The service state a call works on: st = [hashes, stats, entries, adds], adds
\* listing the add calls made so far in this call by the text each was made for
\* (the chunk of an ingestion, the question/answer text of a sync). `failing` is
\* the set of ordinals of the add calls that raise in this call.

\* {**metadata, "chunk_index": i, "total_chunks": len(chunks)}
FileChunkMetadata(metadata, i, chunks) ==
    [source       |-> metadata.source,
     type         |-> metadata.type,
     file_type    |-> metadata.file_type,
     chunk_index  |-> i - 1,
     total_chunks |-> Len(chunks)]

\* the service state after chunk i of a file was stored
AfterFileStore(st, chunks, i, content_hash, path, metadata) ==
    [hashes  |-> RememberHash(st.hashes, content_hash),
     stats   |-> UpdateStatsCache(st.stats, PathStr(path)),
     entries |-> MemoryAdd(st.entries, FileMemoryContent(path, chunks[i]), chunks[i],
                           FileChunkMetadata(metadata, i, chunks)),
     adds    |-> Append(st.adds, chunks[i])]

RECURSIVE FileStoreLoop(_, _, _, _, _, _, _)
RECURSIVE FileStoreChunk(_, _, _, _, _, _, _, _)

\* FileStoreChunk that puts the fingerprint in the Dedup Set before the add
FileStoreChunk_HashFirst(chunks, i, content_hash, st, stored_count, path, metadata, failing) ==
    IF content_hash \notin st.hashes
    THEN IF (Len(st.adds) + 1) \in failing
         THEN [st |-> [st EXCEPT !.adds = Append(@, chunks[i]),
                                 !.hashes = RememberHash(@, content_hash)],
               stored_count |-> stored_count, raised |-> TRUE]
         ELSE FileStoreLoop(chunks, i + 1,
                            AfterFileStore(st, chunks, i, content_hash, path, metadata),
                            stored_count + 1, path, metadata, failing)
    ELSE FileStoreLoop(chunks, i + 1, st, stored_count, path, metadata, failing)

\* FileStoreChunk without the membership test on the Dedup Set
FileStoreChunk_Unchecked(chunks, i, content_hash, st, stored_count, path, metadata, failing) ==
    IF (Len(st.adds) + 1) \in failing
    THEN [st |-> [st EXCEPT !.adds = Append(@, chunks[i])],
          stored_count |-> stored_count, raised |-> TRUE]
    ELSE FileStoreLoop(chunks, i + 1,
                       AfterFileStore(st, chunks, i, content_hash, path, metadata),
                       stored_count + 1, path, metadata, failing)

\* the body of the loop of process_local_file for chunk i, whose hash is content_hash
FileStoreChunk(chunks, i, content_hash, st, stored_count, path, metadata, failing) ==
    IF content_hash \notin st.hashes
    THEN IF (Len(st.adds) + 1) \in failing
         THEN [st |-> [st EXCEPT !.adds = Append(@, chunks[i])],
               stored_count |-> stored_count, raised |-> TRUE]
         ELSE FileStoreLoop(chunks, i + 1,
                            AfterFileStore(st, chunks, i, content_hash, path, metadata),
                            stored_count + 1, path, metadata, failing)
    ELSE FileStoreLoop(chunks, i + 1, st, stored_count, path, metadata, failing)

\* the loop `for i, chunk in enumerate(chunks)` of process_local_file from chunk i
\* on (1-based): [st, stored_count, raised]
FileStoreLoop(chunks, i, st, stored_count, path, metadata, failing) ==
    IF i > Len(chunks)
    THEN [st |-> st, stored_count |-> stored_count, raised |-> FALSE]
    ELSE FileStoreChunk(chunks, i, ContentHash(chunks[i]), st, stored_count, path,
                        metadata, failing)

\* {"error": f"<message>: <detail>"}: the result of a failed call, by the fixed
\* part of its message
Error(message) == [kind |-> "error", error |-> message]

\* the call raised to its caller
Raised == [kind |-> "raised"]

\* FileResult that reports every chunk as stored
FileResult_CountsAll(path, metadata, chunks, loop) ==
    IF loop.raised
    THEN [st |-> loop.st, res |-> Error("Failed to process file")]
    ELSE [st  |-> loop.st,
          res |-> [kind             |-> "success",
                   file             |-> PathStr(path),
                   chunks_processed |-> Len(chunks),
                   chunks_stored    |-> Len(chunks),
                   metadata         |-> metadata]]

\* what process_local_file returns after its loop: the success outcome, or the
\* error outcome of the except clause when an add raised
FileResult(path, metadata, chunks, loop) ==
    IF loop.raised
    THEN [st |-> loop.st, res |-> Error("Failed to process file")]
    ELSE [st  |-> loop.st,
          res |-> [kind             |-> "success",
                   file             |-> PathStr(path),
                   chunks_processed |-> Len(chunks),
                   chunks_stored    |-> loop.stored_count,
                   metadata         |-> metadata]]

\* process_local_file from "Store in vector database" on
StoreFileChunks(path, metadata, chunks, st, failing) ==
    FileResult(path, metadata, chunks,
               FileStoreLoop(chunks, 1, st, 0, path, metadata, failing))

\* process_local_file from "Process content into chunks" on; read is [ok, content]
ChunkAndStore(path, metadata, read, st, failing) ==
    IF ~read.ok THEN [st |-> st, res |-> Error("Failed to process file")]
    ELSE StoreFileChunks(path, metadata, _chunk_content(read.content, FileChunkSize),
                         st, failing)

\* ReadAndStore without the refusal of unrecognised file types
ReadAndStore_AnyType(f, path, file_type, st, failing) ==
    ChunkAndStore(path,
                  [source |-> PathStr(path), type |-> "file", file_type |-> file_type],
                  ReadContent(f, path, file_type), st, failing)

\* the try block of process_local_file
ReadAndStore(f, path, file_type, st, failing) ==
    IF file_type \notin TextFileTypes \cup {PdfFileType} \cup WordFileTypes
    THEN [st |-> st, res |-> Error("Unsupported file type")]
    ELSE ChunkAndStore(path,
                       [source |-> PathStr(path), type |-> "file",
                        file_type |-> file_type],
                       ReadContent(f, path, file_type), st, failing)

\* process_local_file(file_path) on file system f: [st, res]
process_local_file(f, path, st, failing) ==
    IF ~Exists(f, path) THEN [st |-> st, res |-> Error("File not found")]
    ELSE ReadAndStore(f, path, Lower(Suffix(path)), st, failing)

\* any(part.startswith('.') for part in file_path.parts)
HasHiddenPart(path) == \E i \in DOMAIN path : StartsWith(path[i], <<".">>)

\* any(ignore in str(file_path) for ignore in [...])
HasIgnoredPattern(path) == \E ignore \in IgnorePatterns : Contains(PathStr(path), ignore)

\* FolderAccepts without the test of the suffix against the extension list
FolderAccepts_AnySuffix(f, file_path, extensions) ==
    /\ IsFile(f, file_path)
    /\ ~HasHiddenPart(file_path)
    /\ ~HasIgnoredPattern(file_path)

\* the condition under which process_folder hands a path to process_local_file
FolderAccepts(f, file_path, extensions) ==
    /\ IsFile(f, file_path)
    /\ Lower(Suffix(file_path)) \in extensions
    /\ ~HasHiddenPart(file_path)
    /\ ~HasIgnoredPattern(file_path)

RECURSIVE FolderLoop(_, _, _, _, _, _, _)
RECURSIVE FolderStep(_, _, _, _, _, _, _)

\* FolderStep that ends the walk at the first file that gave an error
FolderStep_StopAtError(f, listing, i, extensions, r, results, failing) ==
    IF r.res.kind = "error" THEN [st |-> r.st, results |-> Append(results, r.res)]
    ELSE FolderLoop(f, listing, i + 1, extensions, r.st, Append(results, r.res), failing)

\* results.append(result), and on to the next path; r is what process_local_file gave
FolderStep(f, listing, i, extensions, r, results, failing) ==
    FolderLoop(f, listing, i + 1, extensions, r.st, Append(results, r.res), failing)

\* the loop `for file_path in path.rglob('*')` of process_folder from the i-th
\* path on: [st, results]
FolderLoop(f, listing, i, extensions, st, results, failing) ==
    IF i > Len(listing) THEN [st |-> st, results |-> results]
    ELSE IF FolderAccepts(f, listing[i], extensions)
         THEN FolderStep(f, listing, i, extensions,
                         process_local_file(f, listing[i], st, failing),
                         results, failing)
         ELSE FolderLoop(f, listing, i + 1, extensions, st, results, failing)

\* what process_folder returns after its loop
FolderResult(path, loop) ==
    [st  |-> loop.st,
     res |-> [kind            |-> "success",
              folder          |-> PathStr(path),
              files_processed |-> Len(loop.results),
              results         |-> loop.results]]

\* process_folder(folder_path, extensions) on file system f: [st, res]
process_folder(f, path, extensions, st, failing) ==
    IF ~Exists(f, path) THEN [st |-> st, res |-> Error("Folder not found")]
    ELSE FolderResult(path, FolderLoop(f, RGlobFiles(f, path), 1, extensions, st,
                                       <<>>, failing))

\* git clone --depth 1 --branch <branch> <repo_url> <temp_dir> when it succeeds
GitClone(f, repo_url, branch) ==
    [f EXCEPT ![HeadFile] = TextFile(branch), ![RepoFile] = RemoteFile(branch)]

\* GitCloneOrPull that clones whether or not the directory exists
GitCloneOrPull_AlwaysClone(f, repo_url, branch) == GitClone(f, repo_url, branch)

\* the file system after the clone or the pull of process_git_repo succeeded
GitCloneOrPull(f, repo_url, branch) ==
    IF Exists(f, TempDir(repo_url)) THEN f ELSE GitClone(f, repo_url, branch)

\* result["source"] = repo_url; result["branch"] = branch; r is what
\* process_folder gave on the working copy in file system f
GitResult(f, r, repo_url, branch) ==
    [fs  |-> f,
     st  |-> r.st,
     res |-> [kind            |-> r.res.kind,
              folder          |-> r.res.folder,
              files_processed |-> r.res.files_processed,
              results         |-> r.res.results,
              source          |-> repo_url,
              branch          |-> branch]]

\* process_git_repo from "Process the cloned repository" on
GitIngest(f, repo_url, branch, st, failing) ==
    GitResult(f, process_folder(f, TempDir(repo_url), DefaultExtensions, st, failing),
              repo_url, branch)

\* process_git_repo(repo_url, branch): [fs, st, res]. git is "ok", "failed" (the
\* command exits non-zero: CalledProcessError) or "oserror" (any other exception)
process_git_repo(f, repo_url, branch, git, st, failing) ==
    IF git = "failed"
    THEN [fs |-> f, st |-> st, res |-> Error("Failed to clone repository")]
    ELSE IF git = "oserror"
    THEN [fs |-> f, st |-> st, res |-> Error("Failed to process repository")]
    ELSE GitIngest(GitCloneOrPull(f, repo_url, branch), repo_url, branch, st, failing)

-----------------------------------------------------------------------------
(* Website ingestion *)

\* a list without its last element when that is empty
DropEmptyLast(parts) ==
    IF parts[Len(parts)] = <<>> THEN SubSeq(parts, 1, Len(parts) - 1) ELSE parts

\* str.splitlines() for texts whose only line break is the newline
SplitLines(text) ==
    IF text = <<>> THEN <<>> ELSE DropEmptyLast(Split(text, <<NL>>))

\* the phrases stripped, the empty ones dropped
StripAll(phrases) ==
    SelectSeq([i \in DOMAIN phrases |-> Strip(phrases[i])],
              LAMBDA phrase : phrase # <<>>)

\* (phrase.strip() for phrase in line.split("  ")) for the stripped line, the
\* empty phrases dropped
PhrasesOf(line) == StripAll(Split(Strip(line), <<SP, SP>>))

RECURSIVE AllPhrases(_)
AllPhrases(lines) ==
    IF lines = <<>> THEN <<>> ELSE PhrasesOf(Head(lines)) \o AllPhrases(Tail(lines))

\* the whitespace flattening of soup.get_text()
FlattenText(text) == Join(AllPhrases(SplitLines(text)), <<SP>>)

\* the first path segment of what follows the scheme
FirstSegment(after) ==
    IF Len(after) < 2 THEN <<>> ELSE Split(after[2], <<"/">>)[1]

\* urlparse(url).netloc for a URL scheme://netloc/path
Netloc(url) == FirstSegment(Split(url, <<"/", "/">>))

\* {**metadata, "chunk_index": i, "total_chunks": len(chunks)}
WebChunkMetadata(metadata, i, chunks) ==
    [source       |-> metadata.source,
     type         |-> metadata.type,
     title        |-> metadata.title,
     chunk_index  |-> i - 1,
     total_chunks |-> Len(chunks)]

\* the service state after chunk i of a page was stored
AfterWebStore(st, chunks, i, content_hash, metadata) ==
    [hashes  |-> RememberHash(st.hashes, content_hash),
     stats   |-> st.stats,
     entries |-> MemoryAdd(st.entries, WebMemoryContent(metadata.title, chunks[i]),
                           chunks[i], WebChunkMetadata(metadata, i, chunks)),
     adds    |-> Append(st.adds, chunks[i])]

RECURSIVE WebStoreLoop(_, _, _, _, _, _)
RECURSIVE WebStoreChunk(_, _, _, _, _, _, _)

\* WebStoreLoop that fingerprints the memory content, prefix included
WebStoreLoop_HashWithPrefix(chunks, i, st, stored_count, metadata, failing) ==
    IF i > Len(chunks)
    THEN [st |-> st, stored_count |-> stored_count, raised |-> FALSE]
    ELSE WebStoreChunk(chunks, i, ContentHash(WebMemoryContent(metadata.title, chunks[i])),
                       st, stored_count, metadata, failing)

\* the body of the loop of process_website for chunk i, whose hash is content_hash
WebStoreChunk(chunks, i, content_hash, st, stored_count, metadata, failing) ==
    IF content_hash \notin st.hashes
    THEN IF (Len(st.adds) + 1) \in failing
         THEN [st |-> [st EXCEPT !.adds = Append(@, chunks[i])],
               stored_count |-> stored_count, raised |-> TRUE]
         ELSE WebStoreLoop(chunks, i + 1,
                           AfterWebStore(st, chunks, i, content_hash, metadata),
                           stored_count + 1, metadata, failing)
    ELSE WebStoreLoop(chunks, i + 1, st, stored_count, metadata, failing)

\* the loop `for i, chunk in enumerate(chunks)` of process_website from chunk i
\* on (1-based): [st, stored_count, raised]
WebStoreLoop(chunks, i, st, stored_count, metadata, failing) ==
    IF i > Len(chunks)
    THEN [st |-> st, stored_count |-> stored_count, raised |-> FALSE]
    ELSE WebStoreChunk(chunks, i, ContentHash(chunks[i]), st, stored_count, metadata,
                       failing)

\* what requests.get(url) gives: no response (a RequestException, which a
\* non-2xx status is turned into), or a page with its text and, if it has a
\* title tag, its title
NoResponse == [ok |-> FALSE, has_title |-> FALSE, title |-> <<>>, text |-> <<>>]

\* a titled page with the text of FileA's first chunk, and an untitled page
Pages ==
    {[ok |-> TRUE, has_title |-> TRUE, title |-> <<"t">>, text |-> <<"a">>],
     [ok |-> TRUE, has_title |-> FALSE, title |-> <<>>, text |-> <<"a", " ", " ", "b", "\n", " ", "a">>]}

\* what process_website returns after its loop
WebResult(url, metadata, chunks, loop) ==
    IF loop.raised
    THEN [st |-> loop.st, res |-> Error("Failed to process website")]
    ELSE [st  |-> loop.st,
          res |-> [kind             |-> "success",
                   url              |-> url,
                   title            |-> metadata.title,
                   chunks_processed |-> Len(chunks),
                   chunks_stored    |-> loop.stored_count,
                   metadata         |-> metadata]]

\* process_website from "Store in vector database" on
StoreWebChunks(url, metadata, chunks, st, failing) ==
    WebResult(url, metadata, chunks, WebStoreLoop(chunks, 1, st, 0, metadata, failing))

\* the metadata of a page: its title, or the host name when it has no title tag
WebMetadata(url, page) ==
    [source |-> url, type |-> "website",
     title  |-> IF page.has_title THEN page.title ELSE Netloc(url)]

\* process_website(url, max_depth): [st, res]
process_website(url, page, st, failing) ==
    IF ~page.ok THEN [st |-> st, res |-> Error("Failed to fetch website")]
    ELSE StoreWebChunks(url, WebMetadata(url, page),
                        _chunk_content(FlattenText(page.text), WebChunkSize),
                        st, failing)

-----------------------------------------------------------------------------
(* Search, stats and cache sync *)

\* search_knowledge(query, limit): what self.memory.search returned, or the
\* exception it raised, which nothing catches
search_knowledge(found, search_ok) ==
    IF search_ok THEN [kind |-> "results", results |-> found] ELSE Raised

\* the category get_knowledge_stats files a source identifier under
ClassifySource(source) ==
    IF EndsWith(source, <<".", "p", "d", "f">>) \/ EndsWith(source, <<".", "t", "x", "t">>)
           \/ EndsWith(source, <<".", "m", "d">>)
    THEN "files"
    ELSE IF StartsWith(source, <<"h", "t", "t", "p", ":", "/", "/">>) \/ StartsWith(source, <<"h", "t", "t", "p", "s", ":", "/", "/">>)
    THEN IF Contains(source, <<"g", "i", "t", "h", "u", "b", ".", "c", "o", "m">>) \/ Contains(source, <<"g", "i", "t", "l", "a", "b", ".", "c", "o", "m">>)
         THEN "repos" ELSE "websites"
    ELSE IF Contains(source, <<"/">>) /\ ~StartsWith(source, <<"/">>)
    THEN "repos"
    ELSE "folders"

\* get_knowledge_stats(): web_memories_count is the count read from the
\* web_memories collection, 0 when that read failed
get_knowledge_stats(stats, web_memories_count) ==
    [kind           |-> "stats",
     kb_chunks      |-> stats.total_chunks,
     web_memories   |-> web_memories_count,
     total_memories |-> stats.total_memories,
     unique_sources |-> stats.unique_sources,
     sources        |-> stats.sources,
     source_types   |-> [category \in {"files", "folders", "repos", "websites"} |->
                            {source \in DOMAIN stats.sources :
                                ClassifySource(source) = category}]]

\* AfterSync that also puts the fingerprint of the pair in the Dedup Set and
\* counts it in the Stats Cache
AfterSync_Bookkept(st, entry) ==
    [hashes  |-> RememberHash(st.hashes,
                     ContentHash(QaMemoryContent(entry.query, entry.response))),
     stats   |-> [st.stats EXCEPT !.total_chunks = @ + 1],
     entries |-> MemoryAdd(st.entries, QaMemoryContent(entry.query, entry.response),
                           <<>>,
                           [source |-> "user_cache", type |-> "qa_pair",
                            session_id |-> entry.session_id]),
     adds    |-> Append(st.adds, QaMemoryContent(entry.query, entry.response))]

\* the service state after the question/answer pair of an entry was stored
AfterSync(st, entry) ==
    [st EXCEPT !.entries = MemoryAdd(@, QaMemoryContent(entry.query, entry.response),
                                     <<>>,
                                     [source |-> "user_cache", type |-> "qa_pair",
                                      session_id |-> entry.session_id]),
               !.adds = Append(@, QaMemoryContent(entry.query, entry.response))]

\* the loop `for entry in cache_entries` of sync_cache_to_knowledge from entry i
\* on: [st, synced_count, raised]
RECURSIVE SyncLoop(_, _, _, _, _)
SyncLoop(cache_entries, i, st, synced_count, failing) ==
    IF i > Len(cache_entries)
    THEN [st |-> st, synced_count |-> synced_count, raised |-> FALSE]
    ELSE IF cache_entries[i].query # <<>> /\ cache_entries[i].response # <<>>
         THEN IF (Len(st.adds) + 1) \in failing
              THEN [st |-> [st EXCEPT !.adds = Append(@, QaMemoryContent(
                                cache_entries[i].query, cache_entries[i].response))],
                    synced_count |-> synced_count, raised |-> TRUE]
              ELSE SyncLoop(cache_entries, i + 1, AfterSync(st, cache_entries[i]),
                            synced_count + 1, failing)
         ELSE SyncLoop(cache_entries, i + 1, st, synced_count, failing)

\* what sync_cache_to_knowledge returns after its loop; an exception of add is
\* not caught
SyncResult(cache_entries, loop) ==
    IF loop.raised THEN [st |-> loop.st, res |-> Raised]
    ELSE [st  |-> loop.st,
          res |-> [kind          |-> "success",
                   synced_count  |-> loop.synced_count,
                   total_entries |-> Len(cache_entries)]]

\* sync_cache_to_knowledge(cache_entries): [st, res]
sync_cache_to_knowledge(cache_entries, st, failing) ==
    SyncResult(cache_entries, SyncLoop(cache_entries, 1, st, 0, failing))

CompleteEntry == [query |-> <<"q">>, response |-> <<"r">>, session_id |-> "s"]

NoQueryEntry == [query |-> <<>>, response |-> <<"r">>, session_id |-> "s"]

NoResponseEntry == [query |-> <<"q">>, response |-> <<>>, session_id |-> "s"]

\* the cache entries a caller sends: with or without a query and a response
CacheEntryLists == {<<CompleteEntry>>, <<NoQueryEntry>>,
                    <<CompleteEntry, NoResponseEntry>>,
                    <<CompleteEntry, CompleteEntry>>}

\* the bag restricted to its question/answer entries
QaEntries(entries) ==
    [e \in {x \in BagToSet(entries) : x.metadata.type = "qa_pair"} |-> entries[e]]

\* how many question/answer entries the store holds
SyncedCount(entries) == BagCardinality(QaEntries(entries))

-----------------------------------------------------------------------------
(* The query backend (src/backend/app.py): Mem0Backend.process_query *)

\* d.get(key, default) on a dict
Get(d, key, default) == IF key \in DOMAIN d THEN d[key] ELSE default

\* seq[:n]
Take(seq, n) == SubSeq(seq, 1, Min(n, Len(seq)))

\* JSON values whose Python type the code tests
JList(items) == [type |-> "list", value |-> items]

JDict(fields) == [type |-> "dict", value |-> fields]

JStr(text) == [type |-> "str", value |-> text]

\* a body that is not JSON: kb_response.json() raises
JInvalid == [type |-> "invalid", value |-> <<>>]

\* the excerpts the stores return
Mem1 == <<"m", "1">>

Mem2 == <<"m", "2">>

Mem3 == <<"m", "3">>

Mem4 == <<"m", "4">>

Kb1 == <<"k", "1">>

Kb2 == <<"k", "2">>

Kb3 == <<"k", "3">>

Kb4 == <<"k", "4">>

\* an item of memory_results, with and without its 'memory' key
MemoryItem(text) == [id |-> "i", memory |-> text]

NoMemoryItem == [id |-> "i"]

\* what self.memory.search does: it raises or it returns memory_results
SearchRaised == [kind |-> "raised", results |-> <<>>]

SearchReturned(results) == [kind |-> "returned", results |-> results]

MemorySearches ==
    {SearchRaised,
     SearchReturned(<<>>),
     SearchReturned(<<MemoryItem(Mem1), MemoryItem(Mem2)>>),
     SearchReturned(<<MemoryItem(Mem1), NoMemoryItem, MemoryItem(Mem2)>>),
     SearchReturned(<<MemoryItem(Mem1), MemoryItem(Mem2), MemoryItem(Mem3),
                      MemoryItem(Mem4)>>)}

\* [m.get('memory', '') for m in memory_results if 'memory' in m]
MemoryExcerpts(kept) == [i \in 1..Len(kept) |-> kept[i].memory]

\* the first try block: memories stays [] when the search raises or finds nothing
SearchMemories(search) ==
    IF search.kind = "raised" THEN <<>>
    ELSE IF search.results = <<>> THEN <<>>
    ELSE MemoryExcerpts(SelectSeq(search.results, LAMBDA m : "memory" \in DOMAIN m))

\* an item of the results of /api/kb/search
KbItem(text) == JDict([id |-> "i", memory |-> text])

\* what requests.post does: it raises (service unreachable, timeout after 2 s)
\* or it returns a response
KbRaised(why) == [kind |-> "raised", why |-> why, status_code |-> 0, json |-> JInvalid]

KbResponse(status_code, json) == [kind |-> "response", why |-> "", status_code |-> status_code, json |-> json]

KbBody(results) == JDict([results |-> results])

KbLookups ==
    {KbRaised("unreachable"),
     KbRaised("timeout"),
     KbResponse(500, KbBody(JList(<<KbItem(Kb1)>>))),
     KbResponse(400, JDict([error |-> <<"N", "o", " ", "q", "u", "e", "r", "y", " ", "p", "r", "o", "v", "i", "d", "e", "d">>])),
     KbResponse(200, JInvalid),
     KbResponse(200, JList(<<KbItem(Kb1)>>)),
     KbResponse(200, JDict([error |-> <<"e">>])),
     KbResponse(200, KbBody(JList(<<>>))),
     KbResponse(200, KbBody(JList(<<KbItem(Kb1)>>))),
     KbResponse(200, KbBody(JList(<<KbItem(Kb1), JStr(Kb2), JDict([id |-> "i"]),
                                    KbItem(Kb3)>>))),
     KbResponse(200, KbBody(JList(<<KbItem(Kb1), KbItem(Kb2), KbItem(Kb3),
                                    KbItem(Kb4)>>))),
     KbResponse(200, KbBody(KbBody(JList(<<KbItem(Kb1), KbItem(Kb2)>>)))),
     KbResponse(200, KbBody(JDict([error |-> <<"e">>]))),
     KbResponse(200, KbBody(JStr(Kb1)))}

\* [r.get('memory', '') for r in results if isinstance(r, dict) and 'memory' in r]
KbExcerpts(kept) == [i \in 1..Len(kept) |-> kept[i].value.memory]

\* the results that are a list give the knowledge, any other type gives none
KbResults(results) ==
    IF results.type = "list"
    THEN KbExcerpts(SelectSeq(results.value,
                              LAMBDA r : r.type = "dict" /\ "memory" \in DOMAIN r.value))
    ELSE <<>>

\* the nested results structure: {'results': {'results': [...]}}
Unnest(results) ==
    IF results.type = "dict" /\ "results" \in DOMAIN results.value
    THEN results.value.results
    ELSE results

\* kb_data: a body that is not a JSON object raises inside the try block
\* (json() or keys()), which leaves knowledge at []
KbData(kb_data) ==
    IF kb_data.type # "dict" THEN <<>>
    ELSE IF "results" \notin DOMAIN kb_data.value THEN <<>>
    ELSE KbResults(Unnest(kb_data.value.results))

\* SearchKb that reads the body whatever the status code
SearchKb_AnyStatus(kb) ==
    IF kb.kind = "raised" THEN <<>>
    ELSE KbData(kb.json)

\* the second try block: knowledge stays [] unless the service answers 200
SearchKb(kb) ==
    IF kb.kind = "raised" THEN <<>>
    ELSE IF kb.status_code # 200 THEN <<>>
    ELSE KbData(kb.json)

KbHeader == <<"R", "e", "l", "e", "v", "a", "n", "t", " ", "i", "n", "f", "o", "r", "m", "a", "t", "i", "o", "n", " ", "f", "r", "o", "m", " ", "k", "n", "o", "w", "l", "e", "d", "g", "e", " ", "b", "a", "s", "e", ":", "\n">>

MemHeader == <<"R", "e", "l", "e", "v", "a", "n", "t", " ", "c", "o", "n", "t", "e", "x", "t", " ", "f", "r", "o", "m", " ", "p", "r", "e", "v", "i", "o", "u", "s", " ", "i", "n", "t", "e", "r", "a", "c", "t", "i", "o", "n", "s", ":", "\n">>

NoContext == <<"N", "o", " ", "p", "r", "e", "v", "i", "o", "u", "s", " ", "c", "o", "n", "t", "e", "x", "t", " ", "a", "v", "a", "i", "l", "a", "b", "l", "e", ".", " ", "S", "t", "a", "r", "t", "i", "n", "g", " ", "f", "r", "e", "s", "h", ".", "\n", "\n">>

\* for item in items: context += f"- {item}\n"
RECURSIVE Bullets(_)
Bullets(items) ==
    IF items = <<>> THEN <<>>
    ELSE <<"-", " ">> \o Head(items) \o <<"\n">> \o Bullets(Tail(items))

\* Section that lists every excerpt
Section_Uncapped(header, items) ==
    IF items = <<>> THEN <<>>
    ELSE header \o Bullets(items) \o <<"\n">>

\* a section of the context: its header, at most 3 excerpts, a blank line
Section(header, items) ==
    IF items = <<>> THEN <<>>
    ELSE header \o Bullets(Take(items, 3)) \o <<"\n">>

\* Step 3 of process_query
BuildContext(knowledge, memories) ==
    IF memories = <<>> /\ knowledge = <<>> THEN NoContext
    ELSE Section(KbHeader, knowledge) \o Section(MemHeader, memories)

\* enhanced_prompt
EnhancedPrompt(context, query) == context \o <<"U", "s", "e", "r", " ", "Q", "u", "e", "r", "y", ":", " ">> \o query

\* what chat.completions.create does: it returns the content or it raises
LlmReturned(content) == [kind |-> "returned", content |-> content, error |-> <<>>]

LlmRaised(error) == [kind |-> "raised", content |-> <<>>, error |-> error]

LlmOutcomes == {LlmReturned(<<"r">>), LlmRaised(<<"e">>)}

\* what self.memory.add does
AddOutcomes == {"ok", "raised"}

\* the messages handed to self.memory.add
Interaction(query, ai_response) ==
    <<[role |-> "user", content |-> query],
      [role |-> "assistant", content |-> ai_response]>>

\* the result of a query the model answered
Answer(ai_response, memories, knowledge) ==
    [response |-> ai_response,
     memories_used |-> Len(memories),
     knowledge_used |-> Len(knowledge),
     context |-> Take(memories, 3),
     knowledge_context |-> Take(knowledge, 3)]

\* the result when the call of the model raised
ErrorAnswer(error) ==
    [response |-> <<"E", "r", "r", "o", "r", " ", "p", "r", "o", "c", "e", "s", "s", "i", "n", "g", " ", "q", "u", "e", "r", "y", ":", " ">> \o error,
     memories_used |-> 0,
     context |-> <<>>]

\* Step 4 that saves the interaction before it calls the model
CallModel_SavesFirst(query, memories, knowledge, context, llm, add, mem) ==
    [memories |-> memories, knowledge |-> knowledge, context |-> context,
     prompt |-> EnhancedPrompt(context, query),
     added |-> <<Interaction(query, llm.content)>>,
     memory |-> IF add = "ok" THEN Append(mem, Interaction(query, llm.content))
                ELSE mem,
     res |-> IF llm.kind = "returned" THEN Answer(llm.content, memories, knowledge)
             ELSE ErrorAnswer(llm.error)]

\* Step 4: the model is called with the enhanced prompt; its answer is saved
\* with one add, whose failure is swallowed.  `added` lists the add calls made,
\* `memory` is what backend.memory holds afterwards
CallModel(query, memories, knowledge, context, llm, add, mem) ==
    IF llm.kind = "returned"
    THEN [memories |-> memories, knowledge |-> knowledge, context |-> context,
          prompt |-> EnhancedPrompt(context, query),
          added |-> <<Interaction(query, llm.content)>>,
          memory |-> IF add = "ok" THEN Append(mem, Interaction(query, llm.content))
                     ELSE mem,
          res |-> Answer(llm.content, memories, knowledge)]
    ELSE [memories |-> memories, knowledge |-> knowledge, context |-> context,
          prompt |-> EnhancedPrompt(context, query),
          added |-> <<>>,
          memory |-> mem,
          res |-> ErrorAnswer(llm.error)]

Assemble(query, memories, knowledge, llm, add, mem) ==
    CallModel(query, memories, knowledge, BuildContext(knowledge, memories), llm, add,
              mem)

\* process_query(query, session_id) on a backend whose memory holds mem, with
\* what the memory search, the knowledge-base lookup, the model and add do
process_query(query, search, kb, llm, add, mem) ==
    Assemble(query, SearchMemories(search), SearchKb(kb), llm, add, mem)

\* the queries callers ask
Queries == {<<"q">>}

\* Mem0Backend.__init__, the empty session_cache, clients without a session
BackendInit ==
    /\ chat_memory = <<>>
    /\ session = [c \in {"c1", "c2"} |-> "None"]
    /\ session_cache = [s \in {} |-> <<>>]
    /\ now = 0

NoCall == [query |-> <<>>, search |-> SearchRaised, kb |-> KbRaised("none"), llm |-> LlmRaised(<<>>), add |-> "none", out |-> [kind |-> "none"]]

NoRequest == [endpoint |-> "none", client |-> "none", data |-> <<>>, status |-> 0, body |-> <<>>]

ApiIdle == pq = NoCall /\ http = NoRequest

-----------------------------------------------------------------------------
(* process_local_file step by step, as a request thread runs it: the shared *)
(* set and dict are read and written one bytecode at a time                 *)

Threads == {1, 2}

\* a thread that has no request
IdleThread == [pc |-> "idle", path |-> <<>>, chunks |-> <<>>, i |-> 0,
               stored_count |-> 0, tmp |-> 0]

NoThreads == threads = [t \in Threads |-> IdleThread] /\ serial = TRUE

\* the thread is inside a call
InCall(th) == th.pc \notin {"idle", "done"}

\* a thread may take a step: when the calls run one at a time, only while no
\* other thread is inside a call
MayRun_Unlocked(t) == TRUE

MayRun(t) == serial => \A u \in Threads \ {t} : ~InCall(threads[u])

\* metadata of process_local_file
FileMetadata(path) ==
    [source |-> PathStr(path), type |-> "file", file_type |-> Lower(Suffix(path))]

\* the thread goes to pc with these local variables changed
Goto(t, th) == threads' = [threads EXCEPT ![t] = th]

\* lines 78-112: the file is read and cut into chunks
Begin(t) ==
    /\ threads[t].pc = "idle"
    /\ MayRun(t)
    /\ \E path \in {FileA, FileH} :
           Goto(t, [pc |-> "test", path |-> path,
                    chunks |-> _chunk_content(
                                   ReadContent(fs, path, Lower(Suffix(path))).content,
                                   FileChunkSize),
                    i |-> 1, stored_count |-> 0, tmp |-> 0])
    /\ UNCHANGED <<processed_hashes, stats_cache, store>>

\* lines 113-118: the next chunk, if any, and the membership test
Test(t) ==
    /\ threads[t].pc = "test"
    /\ MayRun(t)
    /\ Goto(t, IF threads[t].i > Len(threads[t].chunks)
               THEN [threads[t] EXCEPT !.pc = "done"]
               ELSE IF ContentHash(threads[t].chunks[threads[t].i]) \in processed_hashes
               THEN [threads[t] EXCEPT !.i = @ + 1]
               ELSE [threads[t] EXCEPT !.pc = "add"])
    /\ UNCHANGED <<processed_hashes, stats_cache, store>>

\* lines 120-125: self.memory.add
Add(t) ==
    /\ threads[t].pc = "add"
    /\ MayRun(t)
    /\ store' = MemoryAdd(store,
                          FileMemoryContent(threads[t].path,
                                            threads[t].chunks[threads[t].i]),
                          threads[t].chunks[threads[t].i],
                          FileChunkMetadata(FileMetadata(threads[t].path), threads[t].i,
                                            threads[t].chunks))
    /\ Goto(t, [threads[t] EXCEPT !.pc = "remember"])
    /\ UNCHANGED <<processed_hashes, stats_cache>>

\* lines 127-128: the fingerprint enters the Dedup Set
Remember(t) ==
    /\ threads[t].pc = "remember"
    /\ MayRun(t)
    /\ processed_hashes' = RememberHash(processed_hashes,
                                        ContentHash(threads[t].chunks[threads[t].i]))
    /\ Goto(t, [threads[t] EXCEPT !.pc = "load_chunks", !.stored_count = @ + 1])
    /\ UNCHANGED <<stats_cache, store>>

\* the value a statement of lines 131-134 reads before it adds one
LoadedAt(pc, stats, source_key) ==
    CASE pc = "load_chunks" -> stats.total_chunks
      [] pc = "load_memories" -> stats.total_memories
      [] OTHER -> SourceCount(stats.sources, source_key)

\* the first half of a statement of lines 131-134: the value is read
Load(t) ==
    /\ threads[t].pc \in {"load_chunks", "load_memories", "load_source"}
    /\ MayRun(t)
    /\ Goto(t, [threads[t] EXCEPT
                   !.tmp = LoadedAt(threads[t].pc, stats_cache, PathStr(threads[t].path)),
                   !.pc = CASE @ = "load_chunks" -> "store_chunks"
                            [] @ = "load_memories" -> "store_memories"
                            [] OTHER -> "store_source"])
    /\ UNCHANGED <<processed_hashes, stats_cache, store>>

\* the dict after the second half of a statement of lines 131-134
StoredAt(pc, stats, source_key, value) ==
    CASE pc = "store_chunks" -> [stats EXCEPT !.total_chunks = value]
      [] pc = "store_memories" -> [stats EXCEPT !.total_memories = value]
      [] OTHER -> [stats EXCEPT !.sources =
                      [k \in DOMAIN stats.sources \cup {source_key} |->
                          IF k = source_key THEN value ELSE stats.sources[k]]]

\* the second half: the value read, plus one, is written
Store(t) ==
    /\ threads[t].pc \in {"store_chunks", "store_memories", "store_source"}
    /\ MayRun(t)
    /\ stats_cache' = StoredAt(threads[t].pc, stats_cache, PathStr(threads[t].path),
                               threads[t].tmp + 1)
    /\ Goto(t, [threads[t] EXCEPT
                   !.pc = CASE @ = "store_chunks" -> "load_memories"
                            [] @ = "store_memories" -> "load_source"
                            [] OTHER -> "unique"])
    /\ UNCHANGED <<processed_hashes, store>>

\* line 135, and the loop goes to the next chunk
Unique(t) ==
    /\ threads[t].pc = "unique"
    /\ MayRun(t)
    /\ stats_cache' = [stats_cache EXCEPT
                          !.unique_sources = Cardinality(DOMAIN stats_cache.sources)]
    /\ Goto(t, [threads[t] EXCEPT !.pc = "test", !.i = @ + 1])
    /\ UNCHANGED <<processed_hashes, store>>

-----------------------------------------------------------------------------
(* The service as a state machine *)

\* the service state a call starts from
State == [hashes |-> processed_hashes, stats |-> stats_cache, entries |-> store,
          adds |-> <<>>]

\* The add call that raises in one call, if any, by its ordinal
FailingOne == {{}} \cup {{k} : k \in 1..MaxAddCalls}

\* every add call told to raise was made: adds lists the add calls made
Happened(failing, adds) == \A k \in failing : k <= Len(adds)

\* __init__, and the files the environment holds when the service starts
ServiceInit(files) ==
    /\ processed_hashes = {}
    /\ stats_cache = [total_chunks |-> 0, sources |-> <<>>, unique_sources |-> 0,
                      total_memories |-> 0]
    /\ store = EmptyBag
    /\ fs = files
    /\ ingested = [p \in Files |-> -1]
    /\ last = [op |-> "none", arg |-> <<>>, res |-> [kind |-> "none"], adds |-> <<>>]

ChunkIdle ==
    /\ c_content = <<>>
    /\ c_size = 1
    /\ c_chunks = <<>>
    /\ c_pc = "idle"

\* the file system a behaviour starts from: the local files, no working copy
InitialFiles ==
    [p \in Files |->
        CASE p = FileA -> TextFile(<<"a", "\n", "\n", "b", "\n", "\n", "a">>)
          [] p = FileB -> PdfFile(<<<<>>, <<"b">>>>)
          [] p = FileC -> TextFile(<<"b">>)
          [] p = FileH -> TextFile(<<"b">>)
          [] OTHER -> NoFile]

Init == ServiceInit(InitialFiles) /\ ChunkIdle /\ BackendInit /\ ApiIdle /\ NoThreads

\* chunks_processed of the successful result for path p among the results of
\* the process_local_file calls on `paths`, -1 if there is none
SuccessOn(p, paths, results) ==
    IF \E i \in DOMAIN results : paths[i] = p /\ results[i].kind = "success"
    THEN results[CHOOSE i \in DOMAIN results :
                     paths[i] = p /\ results[i].kind = "success"].chunks_processed
    ELSE -1

\* the history of successful file ingestions after a call that made the
\* process_local_file calls on `paths` with these results
IngestedAfter(paths, results) ==
    [p \in Files |->
        IF SuccessOn(p, paths, results) >= 0 THEN SuccessOn(p, paths, results)
        ELSE ingested[p]]

\* the paths FolderLoop hands to process_local_file, in order
FolderPaths(f, path, extensions) ==
    SelectSeq(RGlobFiles(f, path), LAMBDA q : FolderAccepts(f, q, extensions))

\* a call returns: the service state it leaves and its result
Return(op, arg, r) ==
    /\ processed_hashes' = r.st.hashes
    /\ stats_cache' = r.st.stats
    /\ store' = r.st.entries
    /\ last' = [op |-> op, arg |-> arg, res |-> r.res, adds |-> r.st.adds]

\* the paths callers ask process_local_file for
FileRequests == {FileA, FileB, FileC, MissingPath}

\* the paths callers ask process_folder for
FolderRequests == {DirD, MissingPath}

FileReturns(path, failing, r) ==
    /\ Happened(failing, r.st.adds)
    /\ Return("process_local_file", path, r)
    /\ ingested' = IngestedAfter(<<path>>, <<r.res>>)
    /\ UNCHANGED <<fs, idle_vars>>

ProcessLocalFile ==
    /\ \E path \in FileRequests, failing \in FailingOne :
           FileReturns(path, failing, process_local_file(fs, path, State, failing))
    /\ UNCHANGED api_vars

FolderReturns(path, failing, r) ==
    /\ Happened(failing, r.st.adds)
    /\ Return("process_folder", path, r)
    /\ ingested' = IF r.res.kind = "success"
                   THEN IngestedAfter(FolderPaths(fs, path, DefaultExtensions),
                                      r.res.results)
                   ELSE ingested
    /\ UNCHANGED <<fs, idle_vars>>

ProcessFolder ==
    /\ \E path \in FolderRequests, failing \in FailingOne :
           FolderReturns(path, failing,
                         process_folder(fs, path, DefaultExtensions, State, failing))
    /\ UNCHANGED api_vars

\* the call is recorded with its arguments and with what the git command did
GitReturns(branch, git, failing, r) ==
    /\ Happened(failing, r.st.adds)
    /\ Return("process_git_repo", <<RepoUrl, branch, git>>, r)
    /\ fs' = r.fs
    /\ ingested' = IF r.res.kind = "success"
                   THEN IngestedAfter(
                            FolderPaths(r.fs, TempDir(RepoUrl), DefaultExtensions),
                            r.res.results)
                   ELSE ingested
    /\ UNCHANGED idle_vars

ProcessGitRepo ==
    /\ \E branch \in {BranchMain, BranchDev}, git \in {"ok", "failed", "oserror"},
          failing \in FailingOne :
           GitReturns(branch, git, failing,
                      process_git_repo(fs, RepoUrl, branch, git, State, failing))
    /\ UNCHANGED api_vars

WebsiteReturns(page, failing, r) ==
    /\ Happened(failing, r.st.adds)
    /\ Return("process_website", <<SiteUrl, page>>, r)
    /\ UNCHANGED <<fs, ingested, idle_vars>>

ProcessWebsite ==
    /\ \E page \in Pages \cup {NoResponse}, failing \in FailingOne :
           WebsiteReturns(page, failing, process_website(SiteUrl, page, State, failing))
    /\ UNCHANGED api_vars

\* the default of search_knowledge's limit argument
DefaultLimit == 5

SearchKnowledge ==
    /\ \E search_ok \in BOOLEAN, found \in SUBSET BagToSet(store) :
           /\ Cardinality(found) = Min(DefaultLimit, Cardinality(BagToSet(store)))
           /\ last' = [op |-> "search_knowledge", arg |-> DefaultLimit,
                       res |-> search_knowledge(found, search_ok), adds |-> <<>>]
           /\ UNCHANGED <<processed_hashes, stats_cache, store, fs, ingested,
                          idle_vars>>
    /\ UNCHANGED api_vars

GetKnowledgeStats ==
    /\ \E web_memories_count \in {0, 1} :
           /\ last' = [op |-> "get_knowledge_stats", arg |-> <<>>,
                       res |-> get_knowledge_stats(stats_cache, web_memories_count),
                       adds |-> <<>>]
           /\ UNCHANGED <<processed_hashes, stats_cache, store, fs, ingested,
                          idle_vars>>
    /\ UNCHANGED api_vars

SyncReturns(cache_entries, failing, r) ==
    /\ Happened(failing, r.st.adds)
    /\ Return("sync_cache_to_knowledge", cache_entries, r)
    /\ UNCHANGED <<fs, ingested, idle_vars>>

SyncCacheToKnowledge ==
    /\ \E cache_entries \in CacheEntryLists, failing \in FailingOne :
           /\ SyncedCount(store) + Len(cache_entries) <= MaxSynced
           /\ SyncReturns(cache_entries, failing,
                          sync_cache_to_knowledge(cache_entries, State, failing))
    /\ UNCHANGED api_vars

\* the environment rewrites, creates or deletes a local file
WriteFile ==
    /\ \E path \in LocalFiles : \E value \in ValuesOf(path) :
           /\ value # fs[path]
           /\ fs' = [fs EXCEPT ![path] = value]
           /\ ingested' = [ingested EXCEPT ![path] = -1]
           /\ last' = [op |-> "write_file", arg |-> path, res |-> [kind |-> "none"],
                       adds |-> <<>>]
           /\ UNCHANGED <<processed_hashes, stats_cache, store, idle_vars>>
    /\ UNCHANGED api_vars

Next ==
    \/ ProcessLocalFile
    \/ ProcessFolder
    \/ ProcessGitRepo
    \/ ProcessWebsite
    \/ SearchKnowledge
    \/ GetKnowledgeStats
    \/ SyncCacheToKnowledge
    \/ WriteFile

Spec == Init /\ [][Next]_vars

-----------------------------------------------------------------------------
(* ChunkSpec: _chunk_content applied to every text up to MaxLen *)

ChunkInit ==
    /\ c_content \in Strings(MaxLen)
    /\ c_size \in 1..MaxChunkSize
    /\ c_chunks = <<>>
    /\ c_pc = "call"
    /\ ServiceInit([p \in Files |-> NoFile])
    /\ BackendInit
    /\ ApiIdle
    /\ NoThreads

ChunkCall ==
    /\ c_pc = "call"
    /\ c_chunks' = _chunk_content(c_content, c_size)
    /\ c_pc' = "done"
    /\ UNCHANGED <<c_content, c_size, svc_vars, api_vars, threads, serial>>

ChunkNext == ChunkCall

ChunkSpec == ChunkInit /\ [][ChunkNext]_vars

-----------------------------------------------------------------------------
(* QuerySpec: process_query called on the backend, with every outcome of the *)
(* memory search, the knowledge-base lookup, the model and the add           *)

QueryReturns(query, search, kb, llm, add, r) ==
    /\ pq' = [query |-> query, search |-> search, kb |-> kb, llm |-> llm,
              add |-> add, out |-> r]
    /\ chat_memory' = r.memory
    /\ UNCHANGED <<session, session_cache, now, http, svc_vars, idle_vars>>

ProcessQuery ==
    /\ Len(chat_memory) < MaxPersisted
    /\ \E query \in Queries, search \in MemorySearches, kb \in KbLookups,
          llm \in LlmOutcomes, add \in AddOutcomes :
           QueryReturns(query, search, kb, llm, add,
                        process_query(query, search, kb, llm, add, chat_memory))

QueryNext == ProcessQuery

QuerySpec == Init /\ [][QueryNext]_vars

-----------------------------------------------------------------------------
(* ApiSpec: the HTTP endpoints of the knowledge-base service               *)
(* (src/KnowledgeB/kb_api.py) and of the query backend (src/backend/app.py) *)

\* JSON null, None in Python
JNull == [type |-> "null", value |-> <<>>]

\* `not v`: None, '' and [] are false
Falsy(v) == v.type = "null" \/ (v.type \in {"str", "list"} /\ v.value = <<>>)

\* the JSON object {}
NoFields == [k \in {} |-> JNull]

\* the bodies of the requests to an endpoint whose required field is `field`:
\* without the field, with a null, with an empty value, with a value
Bodies(field, empty, value) == {NoFields, field :> JNull, field :> empty, field :> value}

\* the import of the evaluation package failed, TruLens is off
TRULENS_ENABLED == FALSE

Clients == {"c1", "c2"}

\* the values uuid4 gives to session ids
SessionIds == {"s1", "s2"}

\* the clock: every request is answered at its own time
Answered == now < MaxRequests /\ now' = now + 1

\* the response to a request; invoked lists the service operations called
Response(endpoint, client, data, status, body, invoked) ==
    [endpoint |-> endpoint, client |-> client, data |-> data, status |-> status,
     body |-> body, invoked |-> invoked]

\* return jsonify({"error": message}), 400: nothing else happens
BadRequest(endpoint, client, data, message) ==
    /\ http' = Response(endpoint, client, data, 400, [error |-> message], <<>>)
    /\ Answered
    /\ UNCHANGED <<svc_vars, idle_vars, app_vars, pq>>

\* an exception that leaves the view function: Flask answers 500
ServerError(endpoint, client, data) ==
    /\ http' = Response(endpoint, client, data, 500,
                        [error |-> <<"I", "n", "t", "e", "r", "n", "a", "l", " ", "S", "e", "r", "v", "e", "r", " ", "E", "r", "r", "o", "r">>], <<>>)
    /\ Answered
    /\ UNCHANGED <<svc_vars, idle_vars, app_vars, pq>>

\* jsonify(result) of a service operation: 200, or 500 when the operation raised
Served(endpoint, data, operation, res) ==
    /\ http' = Response(endpoint, "none", data,
                        IF res.kind = "raised" THEN 500 ELSE 200, res, <<operation>>)
    /\ Answered
    /\ UNCHANGED <<app_vars, pq>>

\* the result of ingest_file: chunks_created is added to a successful result
WithChunksCreated(res) ==
    IF res.kind = "success" THEN res @@ [chunks_created |-> res.chunks_stored]
    ELSE res

\* POST /api/kb/ingest/file
IngestFile ==
    \E data \in Bodies("file_path", JStr(<<>>), JStr(FileA)) :
        IF Falsy(Get(data, "file_path", JNull))
        THEN BadRequest("ingest_file", "none", data, <<"N", "o", " ", "f", "i", "l", "e", " ", "p", "a", "t", "h", " ", "p", "r", "o", "v", "i", "d", "e", "d">>)
        ELSE /\ FileReturns(data.file_path.value, {},
                            process_local_file(fs, data.file_path.value, State, {}))
             /\ Served("ingest_file", data, "process_local_file",
                       WithChunksCreated(last'.res))

\* POST /api/kb/ingest/folder; extensions is None, process_folder takes its default
IngestFolder ==
    \E data \in Bodies("folder_path", JStr(<<>>), JStr(DirD)) :
        IF Falsy(Get(data, "folder_path", JNull))
        THEN BadRequest("ingest_folder", "none", data, <<"N", "o", " ", "f", "o", "l", "d", "e", "r", " ", "p", "a", "t", "h", " ", "p", "r", "o", "v", "i", "d", "e", "d">>)
        ELSE /\ FolderReturns(data.folder_path.value, {},
                              process_folder(fs, data.folder_path.value,
                                             DefaultExtensions, State, {}))
             /\ Served("ingest_folder", data, "process_folder", last'.res)

\* POST /api/kb/ingest/git; branch defaults to 'main'
IngestGitRepo ==
    \E data \in Bodies("repo_url", JStr(<<>>), JStr(RepoUrl)), git \in {"ok", "failed"} :
        IF Falsy(Get(data, "repo_url", JNull))
        THEN BadRequest("ingest_git_repo", "none", data, <<"N", "o", " ", "r", "e", "p", "o", "s", "i", "t", "o", "r", "y", " ", "U", "R", "L", " ", "p", "r", "o", "v", "i", "d", "e", "d">>)
        ELSE /\ GitReturns(Get(data, "branch", JStr(BranchMain)).value, git, {},
                           process_git_repo(fs, data.repo_url.value,
                                            Get(data, "branch", JStr(BranchMain)).value,
                                            git, State, {}))
             /\ Served("ingest_git_repo", data, "process_git_repo", last'.res)

\* what the site answers to a request sent over HTTP
ApiPages == {NoResponse, [ok |-> TRUE, has_title |-> TRUE, title |-> <<"t">>, text |-> <<"a">>]}

\* POST /api/kb/ingest/website
IngestWebsite ==
    \E data \in Bodies("url", JStr(<<>>), JStr(SiteUrl)), page \in ApiPages :
        IF Falsy(Get(data, "url", JNull))
        THEN BadRequest("ingest_website", "none", data, <<"N", "o", " ", "U", "R", "L", " ", "p", "r", "o", "v", "i", "d", "e", "d">>)
        ELSE /\ WebsiteReturns(page, {}, process_website(data.url.value, page, State, {}))
             /\ Served("ingest_website", data, "process_website", last'.res)

\* jsonify({"results": results})
SearchResults(res) ==
    IF res.kind = "raised" THEN res ELSE [kind |-> "results", results |-> res.results]

\* POST /api/kb/search; limit defaults to 5
ApiSearchKnowledge ==
    \E data \in Bodies("query", JStr(<<>>), JStr(<<"q">>)), search_ok \in BOOLEAN,
       found \in SUBSET BagToSet(store) :
        IF Falsy(Get(data, "query", JNull))
        THEN BadRequest("search_knowledge", "none", data, <<"N", "o", " ", "q", "u", "e", "r", "y", " ", "p", "r", "o", "v", "i", "d", "e", "d">>)
        ELSE /\ Cardinality(found) = Min(DefaultLimit, Cardinality(BagToSet(store)))
             /\ last' = [op |-> "search_knowledge", arg |-> DefaultLimit,
                         res |-> search_knowledge(found, search_ok), adds |-> <<>>]
             /\ Served("search_knowledge", data, "search_knowledge",
                       SearchResults(last'.res))
             /\ UNCHANGED <<processed_hashes, stats_cache, store, fs, ingested,
                            idle_vars>>

\* GET /api/kb/stats
GetStats ==
    \E web_memories_count \in {0} :
        /\ last' = [op |-> "get_knowledge_stats", arg |-> <<>>,
                    res |-> get_knowledge_stats(stats_cache, web_memories_count),
                    adds |-> <<>>]
        /\ Served("get_stats", NoFields, "get_knowledge_stats", last'.res)
        /\ UNCHANGED <<processed_hashes, stats_cache, store, fs, ingested, idle_vars>>

\* POST /api/kb/sync-cache; cache_entries defaults to []
SyncCache ==
    \E data \in Bodies("cache_entries", JList(<<>>), JList(<<CompleteEntry>>)) :
        IF Falsy(Get(data, "cache_entries", JList(<<>>)))
        THEN BadRequest("sync_cache", "none", data, <<"N", "o", " ", "c", "a", "c", "h", "e", " ", "e", "n", "t", "r", "i", "e", "s", " ", "p", "r", "o", "v", "i", "d", "e", "d">>)
        ELSE /\ SyncedCount(store) + Len(data.cache_entries.value) <= MaxSynced
             /\ SyncReturns(data.cache_entries.value, {},
                            sync_cache_to_knowledge(data.cache_entries.value, State, {}))
             /\ Served("sync_cache", data, "sync_cache_to_knowledge", last'.res)

\* the entry handle_query appends; its uuid and its timestamp are the clock
CacheEntry(time, query, result) ==
    [id |-> time,
     timestamp |-> time,
     query |-> query,
     response |-> result.response,
     memories_used |-> result.memories_used,
     knowledge_used |-> Get(result, "knowledge_used", 0),
     evaluation_scores |-> Get(result, "evaluation_scores", <<>>)]

\* LastN that keeps the first n entries
LastN_Oldest(seq, n) == IF Len(seq) > n THEN SubSeq(seq, 1, n) ELSE seq

\* seq[-n:]
LastN(seq, n) == IF Len(seq) > n THEN SubSeq(seq, Len(seq) - n + 1, Len(seq)) ELSE seq

\* session_cache after handle_query: the session's list is created if needed,
\* the entry is appended, the list is cut to its last entries
CacheAppended(cache, session_id, entry) ==
    [s \in DOMAIN cache \cup {session_id} |->
        IF s = session_id
        THEN LastN(Append(Get(cache, session_id, <<>>), entry), SessionCacheLimit)
        ELSE cache[s]]

\* the JSON handle_query answers with
QueryBody(time, query, result) ==
    [success |-> TRUE,
     query |-> query,
     response |-> result.response,
     memories_used |-> result.memories_used,
     knowledge_used |-> Get(result, "knowledge_used", 0),
     context |-> result.context,
     knowledge_context |-> Get(result, "knowledge_context", <<>>),
     cache_id |-> time]

\* handle_query from the session lookup on, for a non-empty query
QueryAccepted(client, data, query, session_id, r) ==
    /\ session' = [session EXCEPT ![client] = session_id]
    /\ chat_memory' = r.memory
    /\ session_cache' = CacheAppended(session_cache, session_id,
                                      CacheEntry(now, query, r.res))
    /\ http' = Response("handle_query", client, data, 200,
                        QueryBody(now, query, r.res), <<"process_query">>)
    /\ Answered
    /\ UNCHANGED <<pq, svc_vars, idle_vars>>

\* the session ids uuid4 can give: those no session has
FreshIds == {id \in SessionIds : \A c \in Clients : session[c] # id}

\* the session id of the request: the one of the client's session, or a new one
SessionIdsFor(client) ==
    IF session[client] = "None" THEN FreshIds ELSE {session[client]}

\* what the stores and the model do during a query sent over HTTP
ApiSearches == {SearchReturned(<<MemoryItem(Mem1), MemoryItem(Mem2)>>)}

ApiKbLookups == {KbRaised("unreachable"), KbResponse(200, KbBody(JList(<<KbItem(Kb1)>>)))}

\* the bodies sent to /api/query
QueryBodies == Bodies("query", JStr(<<>>), JStr(<<"q">>)) \cup {"query" :> JStr(<<" ">>)}

\* POST /api/query.  data.get('query', '').strip() raises on a null
HandleQuery ==
    \E client \in Clients, data \in QueryBodies :
        IF Get(data, "query", JStr(<<>>)).type # "str"
        THEN ServerError("handle_query", client, data)
        ELSE IF Strip(Get(data, "query", JStr(<<>>)).value) = <<>>
        THEN BadRequest("handle_query", client, data, <<"N", "o", " ", "q", "u", "e", "r", "y", " ", "p", "r", "o", "v", "i", "d", "e", "d">>)
        ELSE \E session_id \in SessionIdsFor(client), search \in ApiSearches,
                kb \in ApiKbLookups, llm \in LlmOutcomes, add \in AddOutcomes :
                 QueryAccepted(client, data, Strip(data.query.value), session_id,
                               process_query(Strip(data.query.value), search, kb, llm,
                                             add, chat_memory))

\* list(reversed(cache))
Reversed(seq) == [i \in 1..Len(seq) |-> seq[Len(seq) + 1 - i]]

\* GET /api/cache
GetCache ==
    \E client \in Clients :
        /\ http' = Response("get_cache", client, NoFields, 200,
                            [cache |-> IF session[client] = "None" THEN <<>>
                                       ELSE Reversed(Get(session_cache, session[client],
                                                         <<>>))],
                            <<>>)
        /\ Answered
    /\ UNCHANGED <<svc_vars, idle_vars, app_vars, pq>>

\* POST /api/clear_cache
ClearCache ==
    \E client \in Clients :
        /\ session_cache' = [s \in DOMAIN session_cache \ {session[client]} |->
                                session_cache[s]]
        /\ http' = Response("clear_cache", client, NoFields, 200,
                            [success |-> TRUE, message |-> <<"C", "a", "c", "h", "e", " ", "c", "l", "e", "a", "r", "e", "d">>], <<>>)
        /\ Answered
        /\ UNCHANGED <<svc_vars, idle_vars, chat_memory, session, pq>>

ApiNext ==
    \/ IngestFile
    \/ IngestFolder
    \/ IngestGitRepo
    \/ IngestWebsite
    \/ ApiSearchKnowledge
    \/ GetStats
    \/ SyncCache
    \/ HandleQuery
    \/ GetCache
    \/ ClearCache

ApiSpec == Init /\ [][ApiNext]_vars

-----------------------------------------------------------------------------
(* StatsSpec: files of several types are ingested and get_knowledge_stats *)
(* classifies the keys the Stats Cache holds                              *)

\* what the environment holds at a source file when the service starts
SourceValues(path) ==
    IF path = WordFile THEN {NoFile, DocxFile(<<<<"a">>>>), DocxFile(<<<<"b">>, <<"c">>>>)}
    ELSE {NoFile, TextFile(<<"a">>), TextFile(<<"b", "\n", "\n", "c">>)}

\* the file systems StatsSpec starts from: the local files and the source files
SourceFileSystems ==
    {[p \in Files |-> IF p \in SourceFiles THEN v[p] ELSE InitialFiles[p]] :
        v \in [SourceFiles -> UNION {SourceValues(p) : p \in SourceFiles}]}

StatsInit ==
    /\ \E files \in SourceFileSystems :
           /\ \A p \in SourceFiles : files[p] \in SourceValues(p)
           /\ ServiceInit(files)
    /\ ChunkIdle
    /\ BackendInit
    /\ ApiIdle
    /\ NoThreads

\* process_local_file on a source file or on a local file
IngestSource ==
    /\ \E path \in SourceFiles \cup {FileA, FileB} :
           FileReturns(path, {}, process_local_file(fs, path, State, {}))
    /\ UNCHANGED api_vars

StatsNext ==
    \/ IngestSource
    \/ GetKnowledgeStats

StatsSpec == StatsInit /\ [][StatsNext]_vars

-----------------------------------------------------------------------------
(* ThreadSpec: two request threads call process_local_file on the one       *)
(* kb_service, either one call at a time or interleaved                     *)

ThreadInit ==
    /\ ServiceInit(InitialFiles)
    /\ ChunkIdle
    /\ BackendInit
    /\ ApiIdle
    /\ threads = [t \in Threads |-> IdleThread]
    /\ serial \in BOOLEAN

\* what a step of a thread leaves alone
ThreadFrame == UNCHANGED <<fs, ingested, last, api_vars, chunk_vars, serial>>

\* the steps of the threads; the threads make one call each
BeginCall == \E t \in Threads : Begin(t) /\ ThreadFrame

TestHash == \E t \in Threads : Test(t) /\ ThreadFrame

AddChunk == \E t \in Threads : Add(t) /\ ThreadFrame

RememberChunk == \E t \in Threads : Remember(t) /\ ThreadFrame

LoadCounter == \E t \in Threads : Load(t) /\ ThreadFrame

StoreCounter == \E t \in Threads : Store(t) /\ ThreadFrame

CountUnique == \E t \in Threads : Unique(t) /\ ThreadFrame

ThreadNext ==
    \/ BeginCall
    \/ TestHash
    \/ AddChunk
    \/ RememberChunk
    \/ LoadCounter
    \/ StoreCounter
    \/ CountUnique

ThreadSpec == ThreadInit /\ [][ThreadNext]_vars

-----------------------------------------------------------------------------
(* Properties of _chunk_content, checked under ChunkSpec *)

\* the paragraphs of the text handed to _chunk_content
Paragraphs == Split(c_content, ParaSep)

\* the characters of a text that are not whitespace, in order
NonSpace(s) == SelectSeq(s, LAMBDA c : ~IsSpace(c))

\* The paragraphs from the i-th on cut into runs of consecutive paragraphs, a
\* new run starting after paragraph k for each k in cuts; each run is joined
\* with the paragraph separator and trimmed. `current` is the run being built.
RECURSIVE TrimmedGroups(_, _, _, _)
TrimmedGroups(paragraphs, i, cuts, current) ==
    IF i > Len(paragraphs) THEN <<Strip(Join(current, ParaSep))>>
    ELSE IF (i - 1) \in cuts
         THEN <<Strip(Join(current, ParaSep))>>
                  \o TrimmedGroups(paragraphs, i + 1, cuts, <<paragraphs[i]>>)
         ELSE TrimmedGroups(paragraphs, i + 1, cuts, Append(current, paragraphs[i]))

\* C5, as amended: the chunks are the paragraphs of the text cut into runs of
\* consecutive paragraphs, every paragraph in exactly one run and the runs in
\* source order, each run joined with the paragraph separator and trimmed; the
\* characters that are not whitespace appear in the chunks exactly once and in
\* order. (Whitespace at the edges of a run and the separators between runs are
\* in no chunk.)
C5_ChunksAreTrimmedParagraphRuns ==
    c_pc = "done" =>
        /\ \E cuts \in SUBSET (1..(Len(Paragraphs) - 1)) :
               c_chunks = TrimmedGroups(Paragraphs, 2, cuts, <<Paragraphs[1]>>)
        /\ NonSpace(Join(c_chunks, <<>>)) = NonSpace(c_content)

\* C5 witness: a text with leading whitespace and two paragraphs, chunked into
\* two chunks that together hold fewer characters than the text
C5_Witness ==
    /\ c_pc = "done"
    /\ c_content = <<" ", "a", "\n", "\n", "b">>
    /\ c_size = 1
    /\ c_chunks = <<<<"a">>, <<"b">>>>

\* C5 as stated: every character of the text appears in exactly one chunk, in
\* source order, with no gaps and no overlaps
C5_EveryCharacterInOneChunk ==
    c_pc = "done" => Join(c_chunks, <<>>) = c_content

\* C6 as stated: every chunk _chunk_content returns has at most chunk_size
\* characters
C6_ChunksWithinChunkSize ==
    c_pc = "done" => \A i \in DOMAIN c_chunks : Len(c_chunks[i]) <= c_size

\* C7 as stated: a text without a blank line that is longer than chunk_size
\* is cut into the consecutive slices content[i:i+chunk_size]
C7_LongBlockIsSliced ==
    (c_pc = "done" /\ ~Contains(c_content, ParaSep) /\ Len(c_content) > c_size) =>
        c_chunks = FixedSlices(c_content, 0, c_size)

\* C8, as amended: for a text whose paragraphs are all non-empty and have no
\* whitespace at their edges, joining the chunks with the paragraph separator
\* reproduces the text
C8_JoinReproducesCleanText ==
    (c_pc = "done" /\ \A i \in DOMAIN Paragraphs :
                          Paragraphs[i] # <<>> /\ Strip(Paragraphs[i]) = Paragraphs[i]) =>
        Join(c_chunks, ParaSep) = c_content

\* C8 witness: a clean text of two paragraphs sealed as two chunks
C8_Witness ==
    /\ c_pc = "done"
    /\ c_content = <<"a", "\n", "\n", "b">>
    /\ c_size = 1
    /\ c_chunks = <<<<"a">>, <<"b">>>>
    /\ Join(c_chunks, ParaSep) = c_content

\* C8 as stated: for any text, joining the chunks with the paragraph separator
\* reproduces the text with its leading and trailing whitespace trimmed
C8_JoinReproducesTrimmedText ==
    c_pc = "done" => Join(c_chunks, ParaSep) = Strip(c_content)

-----------------------------------------------------------------------------
(* Properties of the service, checked under Spec *)

\* the four ingestion operations
IngestionOps == {"process_local_file", "process_folder", "process_git_repo",
                 "process_website"}

\* the entries of a store that ingestion made (not the question/answer pairs)
ChunkEntries(entries) == {e \in BagToSet(entries) : e.metadata.type # "qa_pair"}

\* a store holds at most one entry for each chunk text
OneEntryPerChunk(entries) ==
    \A e \in ChunkEntries(entries) :
        /\ entries[e] = 1
        /\ \A e2 \in ChunkEntries(entries) : e2.chunk = e.chunk => e2 = e

\* a call left the store, the Dedup Set and the Stats Cache as they were and
\* made no add call
NothingStored ==
    /\ last'.adds = <<>>
    /\ store' = store
    /\ processed_hashes' = processed_hashes
    /\ stats_cache' = stats_cache

\* the chunks a process_local_file or process_website call works on, when it
\* gets as far as chunking: [ok, chunks]
CallChunks(call) ==
    IF call.op = "process_local_file"
    THEN IF Exists(fs, call.arg)
            /\ Lower(Suffix(call.arg)) \in TextFileTypes \cup {PdfFileType} \cup WordFileTypes
            /\ ReadContent(fs, call.arg, Lower(Suffix(call.arg))).ok
         THEN [ok |-> TRUE,
               chunks |-> _chunk_content(
                              ReadContent(fs, call.arg, Lower(Suffix(call.arg))).content,
                              FileChunkSize)]
         ELSE [ok |-> FALSE, chunks |-> <<>>]
    ELSE IF call.op = "process_website" /\ call.arg[2].ok
    THEN [ok |-> TRUE,
          chunks |-> _chunk_content(FlattenText(call.arg[2].text), WebChunkSize)]
    ELSE [ok |-> FALSE, chunks |-> <<>>]

\* C1, as amended: the store holds at most one entry per distinct chunk text,
\* whatever the sequence of file, folder, git and website ingestion calls: add
\* is never called for a chunk whose fingerprint is in the Dedup Set nor twice
\* for one text within a call, a call that makes no add call leaves the store,
\* the Dedup Set and the Stats Cache as they were, and a file or website call
\* all of whose chunks are already fingerprinted succeeds with chunks_stored = 0
\* (for a single-chunk text, chunks_processed - 1).
C1_Step ==
    /\ OneEntryPerChunk(store')
    /\ last'.op \in IngestionOps =>
           /\ \A i \in DOMAIN last'.adds :
                  /\ ContentHash(last'.adds[i]) \notin processed_hashes
                  /\ \A j \in DOMAIN last'.adds : j # i => last'.adds[j] # last'.adds[i]
           /\ last'.adds = <<>> => NothingStored
    /\ (/\ CallChunks(last').ok
        /\ \A i \in DOMAIN CallChunks(last').chunks :
               ContentHash(CallChunks(last').chunks[i]) \in processed_hashes) =>
           /\ last'.res.kind = "success"
           /\ last'.res.chunks_stored = 0
           /\ last'.res.chunks_processed = Len(CallChunks(last').chunks)
           /\ NothingStored

C1_StoredOncePerChunkText == [][C1_Step]_vars

\* C1 witness: the single-chunk page was submitted twice; the second call stored
\* nothing and the store holds one entry for its text
C1_Witness ==
    /\ last.op = "process_website"
    /\ last.res.kind = "success"
    /\ last.res.chunks_processed = 1
    /\ last.res.chunks_stored = 0
    /\ \E e \in BagToSet(store) :
           /\ e.metadata.type = "website"
           /\ e.chunk = last.arg[2].text
           /\ store[e] = 1

\* C1 as stated: add is invoked at most once per distinct chunk text; so no
\* text is handed to add by two ingestion calls that follow each other
C1_AddInvokedOncePerChunkText ==
    [][(last.op \in IngestionOps /\ last'.op \in IngestionOps) =>
           \A i \in DOMAIN last.adds : \A j \in DOMAIN last'.adds :
               last.adds[i] # last'.adds[j]]_vars

\* C2: a process_local_file call on a file that was ingested successfully and
\* has not changed since succeeds with chunks_stored = 0 and the chunks_processed
\* of the earlier call, makes no add call and leaves the Dedup Set, the Stats
\* Cache and the store unchanged.
C2_Step ==
    (last'.op = "process_local_file" /\ last'.arg \in Files
                                      /\ ingested[last'.arg] >= 0) =>
        /\ last'.res.kind = "success"
        /\ last'.res.chunks_stored = 0
        /\ last'.res.chunks_processed = ingested[last'.arg]
        /\ NothingStored

C2_ReingestionIsIdempotent == [][C2_Step]_vars

\* C2 witness: FileA, ingested before, was ingested again: three chunks
\* processed, none stored
C2_Witness ==
    /\ last.op = "process_local_file"
    /\ last.arg = FileA
    /\ last.res.kind = "success"
    /\ last.res.chunks_processed = 3
    /\ last.res.chunks_stored = 0
    /\ ingested[FileA] = 3

\* C3 as stated: total_chunks is the number of chunks stored by ingestion and
\* unique_sources the number of distinct source identifiers they came from
C3_StatsCountEveryStore ==
    /\ stats_cache.total_chunks = Cardinality(ChunkEntries(store))
    /\ stats_cache.unique_sources =
           Cardinality({e.metadata.source : e \in ChunkEntries(store)})

\* C4: in every reachable state unique_sources is the number of keys of sources
C4_UniqueSourcesCountsKeys ==
    stats_cache.unique_sources = Cardinality(DOMAIN stats_cache.sources)

\* C4 witness: two sources are counted and the last call ended in an error
C4_Witness ==
    /\ Cardinality(DOMAIN stats_cache.sources) = 2
    /\ stats_cache.unique_sources = 2
    /\ last.res.kind = "error"

\* C9 as stated: no operation of the service raises to its caller
C9_NoOperationRaises == last.res.kind # "raised"

\* C10: process_local_file answers a missing path with 'File not found' and an
\* existing file of an unrecognised type with 'Unsupported file type', and
\* process_folder answers a missing path with 'Folder not found'; in each case
\* no add call is made and the store, the Dedup Set and the Stats Cache are
\* unchanged.
C10_Step ==
    /\ (last'.op = "process_local_file" /\ ~Exists(fs, last'.arg)) =>
           last'.res = Error("File not found") /\ NothingStored
    /\ (/\ last'.op = "process_local_file"
        /\ Exists(fs, last'.arg)
        /\ Lower(Suffix(last'.arg)) \notin
               TextFileTypes \cup {PdfFileType} \cup WordFileTypes) =>
           last'.res = Error("Unsupported file type") /\ NothingStored
    /\ (last'.op = "process_folder" /\ ~Exists(fs, last'.arg)) =>
           last'.res = Error("Folder not found") /\ NothingStored

C10_NotFoundAndUnsupported == [][C10_Step]_vars

\* C10 witness: a file of an unrecognised type was refused while the store
\* held entries
C10_Witness ==
    /\ last.op = "process_local_file"
    /\ last.arg = FileC
    /\ last.res = Error("Unsupported file type")
    /\ store # EmptyBag
    /\ processed_hashes # {}

\* C11: a process_folder call on an existing folder reports success with one
\* result per matching file, in traversal order, and files_processed the
\* length of results; a file that cannot be processed gives an error entry of
\* its own and the files after it are still processed (a successful entry names
\* its file, an unreadable file gives 'Failed to process file').
C11_Step ==
    (last'.op = "process_folder" /\ Exists(fs, last'.arg)) =>
        /\ last'.res.kind = "success"
        /\ last'.res.files_processed = Len(last'.res.results)
        /\ Len(last'.res.results) = Len(FolderPaths(fs, last'.arg, DefaultExtensions))
        /\ \A i \in DOMAIN last'.res.results :
               /\ last'.res.results[i].kind \in {"success", "error"}
               /\ last'.res.results[i].kind = "success" =>
                      last'.res.results[i].file =
                          PathStr(FolderPaths(fs, last'.arg, DefaultExtensions)[i])
               /\ fs[FolderPaths(fs, last'.arg, DefaultExtensions)[i]] = BadFile =>
                      last'.res.results[i] = Error("Failed to process file")
               /\ (/\ fs[FolderPaths(fs, last'.arg, DefaultExtensions)[i]] # BadFile
                   /\ Len(last'.adds) = Cardinality({last'.adds[k] : k \in DOMAIN last'.adds})
                   /\ Cardinality(ChunkEntries(store')) =
                          Cardinality(ChunkEntries(store)) + Len(last'.adds)) =>
                      last'.res.results[i].kind = "success"

C11_FolderPartialFailure == [][C11_Step]_vars

\* C11 witness: the first file of the folder could not be read, the second
\* was processed and stored after it
C11_Witness ==
    /\ last.op = "process_folder"
    /\ last.arg = DirD
    /\ last.res.kind = "success"
    /\ last.res.files_processed = 2
    /\ last.res.results[1] = Error("Failed to process file")
    /\ last.res.results[2].kind = "success"
    /\ last.res.results[2].file = PathStr(FileB)
    /\ last.res.results[2].chunks_stored = 1

\* every add call of the last call returned: the text of each is in the store
AllAddsStored ==
    \A k \in DOMAIN last.adds :
        \E e \in ChunkEntries(store) : e.chunk = last.adds[k]

\* C12, as amended: ingesting the folder that holds a.txt, b.pdf and c.exe with
\* the default extension list returns a results list with 2 entries, one for
\* a.txt and one for b.pdf in that order, both successes when the files are
\* readable and the store accepts the chunks; c.exe is left out by the
\* extension filter before it is processed: no entry names it and no entry
\* reports an unsupported file type.
C12_ExeHasNoEntry ==
    (last.op = "process_folder" /\ last.arg = DirD) =>
        /\ IsFile(fs, FileA) /\ IsFile(fs, FileB) /\ IsFile(fs, FileC)
        /\ last.res.kind = "success"
        /\ Len(last.res.results) = 2
        /\ \A i \in DOMAIN last.res.results :
               /\ last.res.results[i] # Error("Unsupported file type")
               /\ last.res.results[i].kind = "success" =>
                      last.res.results[i].file = PathStr(<<FileA, FileB>>[i])
        /\ (fs[FileA] # BadFile /\ AllAddsStored) =>
               \A i \in DOMAIN last.res.results : last.res.results[i].kind = "success"

\* C12 witness: the folder was ingested with all three files in place and
\* readable; it gave two successful entries
C12_Witness ==
    /\ last.op = "process_folder"
    /\ last.arg = DirD
    /\ fs[FileC].kind = "text"
    /\ Len(last.res.results) = 2
    /\ last.res.results[1].kind = "success"
    /\ last.res.results[1].file = PathStr(FileA)
    /\ last.res.results[2].kind = "success"
    /\ last.res.results[2].file = PathStr(FileB)

\* C12 as stated: the results list has 3 entries, successes for a.txt and b.pdf
\* and an 'unsupported file type' error for c.exe
C12_ThreeEntries ==
    (last.op = "process_folder" /\ last.arg = DirD /\ fs[FileA] # BadFile
                                /\ AllAddsStored) =>
        /\ Len(last.res.results) = 3
        /\ last.res.results[1].kind = "success"
        /\ last.res.results[2].kind = "success"
        /\ last.res.results[3] = Error("Unsupported file type")

\* a path below base, as the parts that follow base
RelativeTo(path, base) == SubSeq(path, Len(base) + 1, Len(path))

\* the files of the working copy of RepoUrl that have an allowed extension and
\* are under no hidden or noise directory of the working copy
EligibleRepoFiles ==
    SelectSeq(RGlobFiles(fs, TempDir(RepoUrl)),
              LAMBDA q : /\ Lower(Suffix(q)) \in DefaultExtensions
                         /\ ~HasHiddenPart(RelativeTo(q, TempDir(RepoUrl)))
                         /\ ~HasIgnoredPattern(RelativeTo(q, TempDir(RepoUrl))))

\* C13 as stated: a successful process_git_repo call gives one entry in results
\* for every file of the working copy that has an allowed extension and is under
\* no hidden or noise directory of the working copy, so at least one entry for
\* the repository of the model, which tracks r.md
C13_RepoFilesAreProcessed ==
    (last.op = "process_git_repo" /\ last.res.kind = "success") =>
        /\ last.res.files_processed = Len(EligibleRepoFiles)
        /\ last.res.files_processed >= 1

\* C14: the cache directory of process_git_repo depends on the URL alone. A call
\* that finds no directory clones the requested branch into it; a call that
\* finds the directory pulls and clones nothing, whatever branch it names; a
\* directory once made stays, so every call after a successful one pulls. When
\* the git command fails the call returns an error result, no add call is made,
\* and the store, the Dedup Set, the Stats Cache and the file system are
\* unchanged.
C14_Step ==
    /\ Exists(fs, TempDir(RepoUrl)) => Exists(fs', TempDir(RepoUrl))
    /\ last'.op = "process_git_repo" =>
           /\ last'.arg[3] = "ok" =>
                  /\ last'.res.kind = "success"
                  /\ last'.res.folder = PathStr(TempDir(last'.arg[1]))
                  /\ Exists(fs', TempDir(RepoUrl))
                  /\ Exists(fs, TempDir(RepoUrl)) => fs' = fs
                  /\ ~Exists(fs, TempDir(RepoUrl)) =>
                         /\ fs' = GitClone(fs, last'.arg[1], last'.arg[2])
                         /\ fs'[RepoFile] = RemoteFile(last'.arg[2])
           /\ last'.arg[3] # "ok" =>
                  /\ last'.res.kind = "error"
                  /\ last'.arg[3] = "failed" =>
                         last'.res = Error("Failed to clone repository")
                  /\ NothingStored
                  /\ fs' = fs
                  /\ ingested' = ingested

C15_Step ==
    (last'.op \in {"process_local_file", "process_website"}
         /\ last'.res.kind = "success") =>
        /\ CallChunks(last').ok
        /\ last'.res.chunks_processed = Len(CallChunks(last').chunks)
        /\ last'.res.chunks_stored = Len(last'.adds)
        /\ processed_hashes \subseteq processed_hashes'
        /\ last'.res.chunks_stored = Cardinality(processed_hashes' \ processed_hashes)
        /\ BagCardinality(store') = BagCardinality(store) + last'.res.chunks_stored
        /\ 0 <= last'.res.chunks_stored
        /\ last'.res.chunks_stored <= last'.res.chunks_processed

C15_CountsOfASuccessfulCall == [][C15_Step]_vars

\* C15 witness: FileA, whose third chunk repeats its first, was ingested into
\* an empty Dedup Set: three chunks processed, two stored
C15_Witness ==
    /\ last.op = "process_local_file"
    /\ last.arg = FileA
    /\ last.res.kind = "success"
    /\ last.res.chunks_processed = 3
    /\ last.res.chunks_stored = 2
    /\ last.adds = <<<<"a">>, <<"b">>>>
    /\ Cardinality(processed_hashes) = 2

-----------------------------------------------------------------------------
(* Properties of process_query, checked under QuerySpec *)

\* pq records a call of process_query
Called == pq.add # "none"

\* the knowledge-base lookup failed: no answer, or an answer that is not a 200
KbFailed(kb) == kb.kind = "raised" \/ kb.status_code # 200

\* the texts of the items of memory_results that carry one
RECURSIVE FoundMemories(_)
FoundMemories(results) ==
    IF results = <<>> THEN <<>>
    ELSE IF "memory" \in DOMAIN Head(results)
         THEN <<Head(results).memory>> \o FoundMemories(Tail(results))
         ELSE FoundMemories(Tail(results))

\* the line of the context block that shows an excerpt
Bullet(text) == <<"-", " ">> \o text \o <<"\n">>

\* the model was called with the context block followed by the query
ModelCalled ==
    /\ pq.out.prompt = pq.out.context \o <<"U", "s", "e", "r", " ", "Q", "u", "e", "r", "y", ":", " ">> \o pq.query
    /\ pq.llm.kind = "returned" => pq.out.res.response = pq.llm.content

\* C16: retrieval failures degrade silently.  When the knowledge-base lookup
\* raises (unreachable, timeout) or answers with a status other than 200, the
\* knowledge list is empty, the context block has no knowledge-base section,
\* knowledge_used (read as handle_query reads it) is 0, the memory section is
\* still built from the memories found, and the model is still called; when
\* the memory search raises, the memory list is empty and the query still
\* goes on with the knowledge found and the call of the model.
C16_RetrievalFailuresDegrade ==
    Called =>
        /\ KbFailed(pq.kb) =>
              /\ pq.out.knowledge = <<>>
              /\ ~Contains(pq.out.context, KbHeader)
              /\ Get(pq.out.res, "knowledge_used", 0) = 0
              /\ pq.search.kind = "returned" =>
                    /\ pq.out.memories = FoundMemories(pq.search.results)
                    /\ pq.out.memories # <<>> =>
                          /\ StartsWith(pq.out.context, MemHeader)
                          /\ \A i \in 1..Min(3, Len(pq.out.memories)) :
                                 Contains(pq.out.context, Bullet(pq.out.memories[i]))
              /\ ModelCalled
        /\ pq.search.kind = "raised" =>
              /\ pq.out.memories = <<>>
              /\ ~Contains(pq.out.context, MemHeader)
              /\ pq.kb = KbResponse(200, KbBody(JList(<<KbItem(Kb1)>>))) =>
                    /\ pq.out.knowledge = <<Kb1>>
                    /\ Contains(pq.out.context, Bullet(Kb1))
              /\ ModelCalled

\* C16 witness: the service is down, two memories are found, the model answers
C16_Witness ==
    /\ Called
    /\ pq.kb = KbRaised("unreachable")
    /\ pq.out.memories = <<Mem1, Mem2>>
    /\ pq.llm.kind = "returned"
    /\ pq.out.res.knowledge_used = 0
    /\ pq.out.res.context = <<Mem1, Mem2>>

\* the text holds a section: the header first, then a line for each excerpt
\* shown and none for the others, then an empty line
IsSection(text, header, items) ==
    /\ StartsWith(text, header)
    /\ EndsWith(text, <<"\n", "\n">>)
    /\ \A i \in 1..Len(items) : Contains(text, Bullet(items[i])) <=> i <= 3
    /\ Len(Split(text, NL)) = 1 + Cardinality(1..Min(3, Len(items))) + 2

\* the context is the two sections, the knowledge-base one first; an absent
\* section is the empty text
TwoSections(context, knowledge, memories) ==
    \E n \in 0..Len(context) :
        /\ IF knowledge = <<>> THEN n = 0
           ELSE IsSection(SubSeq(context, 1, n), KbHeader, knowledge)
        /\ IF memories = <<>> THEN n = Len(context)
           ELSE IsSection(SubSeq(context, n + 1, Len(context)), MemHeader, memories)

\* C17: the context block is the knowledge-base section (present iff the
\* knowledge list is non-empty, showing at most its first 3 excerpts) followed
\* by the conversational-memory section (present iff the memory list is
\* non-empty, at most its first 3 excerpts); it is the fixed marker exactly
\* when both lists are empty; the context passed to the model is never empty.
C17_ContextBlock ==
    Called =>
        /\ Contains(pq.out.context, KbHeader) <=> pq.out.knowledge # <<>>
        /\ Contains(pq.out.context, MemHeader) <=> pq.out.memories # <<>>
        /\ pq.out.context = NoContext
               <=> (pq.out.knowledge = <<>> /\ pq.out.memories = <<>>)
        /\ (pq.out.knowledge # <<>> \/ pq.out.memories # <<>>)
               => TwoSections(pq.out.context, pq.out.knowledge, pq.out.memories)
        /\ pq.out.context # <<>>
        /\ StartsWith(pq.out.prompt, pq.out.context)

\* C17 witness: four knowledge entries and four memories were retrieved
C17_Witness ==
    /\ Called
    /\ Len(pq.out.knowledge) = 4
    /\ Len(pq.out.memories) = 4
    /\ Contains(pq.out.context, Bullet(Kb3) \o <<"\n">> \o MemHeader \o Bullet(Mem1))

\* how many excerpts of the list have their line in the context block
Placed(context, items) ==
    Cardinality({i \in 1..Len(items) : Contains(context, Bullet(items[i]))})

\* C18: the counts returned by process_query match what was used: in the
\* result of an answered query memories_used equals the number of memory
\* excerpts placed in the context block and the length of the context list,
\* and knowledge_used equals the number of knowledge excerpts placed in the
\* context block and the length of knowledge_context, for any number of
\* retrieved memories and knowledge entries.
C18_CountsMatchWhatWasUsed ==
    (Called /\ pq.llm.kind = "returned") =>
        /\ pq.out.res.memories_used = Placed(pq.out.context, pq.out.memories)
        /\ pq.out.res.memories_used = Len(pq.out.res.context)
        /\ pq.out.res.knowledge_used = Placed(pq.out.context, pq.out.knowledge)
        /\ pq.out.res.knowledge_used = Len(pq.out.res.knowledge_context)

\* a step that is a call of process_query, seen with the memory it started from
C19_Step ==
    /\ pq'.llm.kind = "returned" =>
          /\ pq'.out.added = <<Interaction(pq'.query, pq'.llm.content)>>
          /\ pq'.add = "ok" => chat_memory' = chat_memory \o pq'.out.added
          /\ pq'.add = "raised" => chat_memory' = chat_memory
    /\ pq'.llm.kind = "raised" =>
          /\ pq'.out.added = <<>>
          /\ chat_memory' = chat_memory
    /\ pq'.out.res = process_query(pq'.query, pq'.search, pq'.kb, pq'.llm, "ok",
                                   chat_memory).res

\* C19: the query/response pair is persisted only after a successful response
\* of the model and at most once per query (one add call, made with the pair);
\* when the add raises nothing is stored and the result returned is the one
\* returned when the add succeeds; when the call of the model raises no add is
\* made and nothing is persisted.
C19_PersistenceIsBestEffort == [][C19_Step]_vars

\* C19 witness: one interaction was persisted, then a query was answered by
\* the model and its add raised
C19_Witness ==
    /\ Called
    /\ pq.llm.kind = "returned"
    /\ pq.add = "raised"
    /\ Len(chat_memory) = 1
    /\ pq.out.res.response = pq.llm.content

-----------------------------------------------------------------------------
(* Properties of the HTTP endpoints, checked under ApiSpec *)

\* the required field of the endpoints that have one
RequiredField ==
    [ingest_file |-> "file_path", ingest_folder |-> "folder_path",
     ingest_git_repo |-> "repo_url", ingest_website |-> "url",
     search_knowledge |-> "query", sync_cache |-> "cache_entries",
     handle_query |-> "query"]

\* the request has no value for its required field: the field is absent, null,
\* the empty string or the empty list
MissingOrEmpty(request) ==
    /\ request.endpoint \in DOMAIN RequiredField
    /\ Falsy(Get(request.data, RequiredField[request.endpoint], JNull))

\* a step that answers a request
C20_Step ==
    (now' # now /\ MissingOrEmpty(http')) =>
        /\ http'.status = 400
        /\ "error" \in DOMAIN http'.body
        /\ http'.invoked = <<>>
        /\ UNCHANGED <<store, processed_hashes, stats_cache, session_cache, session,
                       chat_memory>>

\* C20: required-field validation fails fast.  A request to an ingest, search,
\* sync-cache or query endpoint whose required field is missing or empty is
\* answered with an error and status 400 before any service operation is
\* invoked: the memory store, the Dedup Set, the Stats Cache and the session
\* cache are unchanged and no session is created.
C20_RequiredFieldsFailFast == [][C20_Step]_vars

-----------------------------------------------------------------------------
(* Properties of get_knowledge_stats, checked under StatsSpec *)

\* the file-extension suffixes local-file ingestion accepts
AcceptedSuffixes == TextFileTypes \cup {PdfFileType} \cup WordFileTypes

\* the categories of the result that list the source
CategoriesOf(res, source) ==
    {category \in DOMAIN res.source_types : source \in res.source_types[category]}

\* C21: get_knowledge_stats puts every source identifier of the Stats Cache in
\* exactly one of the categories files, folders, repos, websites, and an
\* identifier that ends in a file-extension suffix accepted by local-file
\* ingestion is in files.
C21_AcceptedSuffixIsAFile ==
    last.op = "get_knowledge_stats" =>
        \A source \in DOMAIN stats_cache.sources :
            /\ Cardinality(CategoriesOf(last.res, source)) = 1
            /\ (\E suffix \in AcceptedSuffixes : EndsWith(source, suffix))
                   => CategoriesOf(last.res, source) = {"files"}

-----------------------------------------------------------------------------
(* Properties of interleaved ingestion calls, checked under ThreadSpec *)

\* how many entries the store holds for a chunk text
EntriesFor(chunk) ==
    BagCardinality([e \in {x \in BagToSet(store) : x.chunk = chunk} |-> store[e]])

\* the chunk a thread is working on
ChunkOf(th) == th.chunks[th.i]

\* the thread passed the membership test for its chunk and has not yet
\* inserted the fingerprint
BetweenTestAndInsert(th) == th.pc \in {"add", "remember"}

\* no thread is inside a call
Quiescent == \A t \in Threads : ~InCall(threads[t])

\* C22: the Dedup Set and the Stats Cache are used without mutual exclusion.
\* When two calls are between the membership test and the insertion of the
\* fingerprint of the same chunk text, both store the chunk: once both have
\* made their add, the store holds two entries for the one fingerprint.  The
\* counters never exceed the number of stores, and interleaved increments can
\* leave total_chunks below it.  When the calls run one at a time, no chunk
\* text is stored twice and, between calls, total_chunks is the number of
\* stores.
C22_UnlockedSharedState ==
    /\ (/\ BetweenTestAndInsert(threads[1])
        /\ BetweenTestAndInsert(threads[2])
        /\ ChunkOf(threads[1]) = ChunkOf(threads[2])
        /\ threads[1].pc = "remember"
        /\ threads[2].pc = "remember")
           => (~serial /\ EntriesFor(ChunkOf(threads[1])) = 2)
    /\ stats_cache.total_chunks <= BagCardinality(store)
    /\ serial =>
           /\ \A e \in BagToSet(store) : EntriesFor(e.chunk) = 1
           /\ Quiescent => stats_cache.total_chunks = BagCardinality(store)

\* C22 witness: two interleaved calls are over, a chunk text is stored twice
\* and total_chunks is below the number of stores
C22_Witness ==
    /\ ~serial
    /\ \A t \in Threads : threads[t].pc = "done"
    /\ \E e \in BagToSet(store) : EntriesFor(e.chunk) = 2
    /\ stats_cache.total_chunks < BagCardinality(store)

-----------------------------------------------------------------------------
(* Properties of a failing add, checked under Spec *)

\* the call is a process_local_file whose add raised: the last text of adds is
\* the chunk the add failed on, the texts before it were stored
AddFailed(call) ==
    /\ call.op = "process_local_file"
    /\ call.res.kind = "error"
    /\ call.adds # <<>>

\* the texts a failed call stored
StoredBefore(call) == SubSeq(call.adds, 1, Len(call.adds) - 1)

\* the chunk the add failed on
FailedChunk(call) == call.adds[Len(call.adds)]

\* how many entries a store holds for a chunk text
StoredCount(entries, chunk) ==
    BagCardinality([e \in {x \in BagToSet(entries) : x.chunk = chunk} |-> entries[e]])

\* the call whose add raised: what it stored stays stored, fingerprinted and
\* counted, the chunk it failed on is neither stored nor fingerprinted nor
\* counted, and no fingerprint of a later chunk is added
C23_FailStep ==
    AddFailed(last') =>
        /\ BagCardinality(store') = BagCardinality(store) + Len(StoredBefore(last'))
        /\ \A j \in DOMAIN StoredBefore(last') :
               /\ StoredCount(store', last'.adds[j]) = 1
               /\ StoredCount(store, last'.adds[j]) = 0
        /\ processed_hashes' = processed_hashes
               \cup {ContentHash(last'.adds[j]) : j \in DOMAIN StoredBefore(last')}
        /\ ContentHash(FailedChunk(last')) \notin processed_hashes'
        /\ StoredCount(store', FailedChunk(last')) = 0
        /\ stats_cache'.total_chunks
               = stats_cache.total_chunks + Len(StoredBefore(last'))
        /\ stats_cache'.total_memories
               = stats_cache.total_memories + Len(StoredBefore(last'))
        /\ SourceCount(stats_cache'.sources, PathStr(last'.arg))
               = SourceCount(stats_cache.sources, PathStr(last'.arg))
                     + Len(StoredBefore(last'))

\* the same file is ingested again, successfully, right after the call whose
\* add raised: the chunk that failed is stored first, nothing the failed call
\* stored is stored again, and every chunk of the file ends up stored once
C23_RetryStep ==
    (/\ AddFailed(last)
     /\ last'.op = "process_local_file"
     /\ last'.arg = last.arg
     /\ last'.res.kind = "success") =>
        /\ last'.adds # <<>>
        /\ last'.adds[1] = FailedChunk(last)
        /\ \A j \in DOMAIN last'.adds :
               /\ ContentHash(last'.adds[j]) \notin processed_hashes
               /\ StoredCount(store, last'.adds[j]) = 0
               /\ \A i \in DOMAIN StoredBefore(last) : last.adds[i] # last'.adds[j]
        /\ last'.res.chunks_stored = Len(last'.adds)
        /\ \A i \in DOMAIN CallChunks(last').chunks :
               /\ StoredCount(store', CallChunks(last').chunks[i]) = 1
               /\ ContentHash(CallChunks(last').chunks[i]) \in processed_hashes'
               /\ (ContentHash(CallChunks(last').chunks[i]) \notin processed_hashes)
                      => \E j \in DOMAIN last'.adds :
                             last'.adds[j] = CallChunks(last').chunks[i]

\* C23: a fingerprint enters the Dedup Set and the Stats Cache counters are
\* incremented only after the add for the chunk returned.  If add fails on a
\* chunk of a file, the call returns an error outcome, the chunks before it
\* stay stored, fingerprinted and counted, the chunk and the later ones are
\* not fingerprinted by the call, and an ingestion of the same file that
\* follows stores exactly the chunks not stored before: none twice, none lost.
C23_FailedAddLeavesNoFingerprint == [][C23_FailStep /\ C23_RetryStep]_vars

\* C23 witness: the add of the second chunk of /d/a.txt raised; 'a' is stored,
\* fingerprinted and counted, 'b' is not
C23_Witness ==
    /\ AddFailed(last)
    /\ last.arg = FileA
    /\ last.adds = <<<<"a">>, <<"b">>>>
    /\ StoredCount(store, <<"a">>) = 1
    /\ ContentHash(<<"a">>) \in processed_hashes
    /\ ContentHash(<<"b">>) \notin processed_hashes
    /\ stats_cache.total_chunks = 1

-----------------------------------------------------------------------------
(* Properties of the Dedup Set across sources, checked under Spec *)

\* the chunk texts a store holds, whatever the source they were ingested from
StoredTexts(entries) == {e.chunk : e \in ChunkEntries(entries)}

\* the distinct texts among the chunks of a call that a store does not hold
NewTexts(call, entries) ==
    {CallChunks(call).chunks[i] : i \in DOMAIN CallChunks(call).chunks}
        \ StoredTexts(entries)

C24_Step ==
    /\ \A e \in ChunkEntries(store') : ContentHash(e.chunk) \in processed_hashes'
    /\ last'.op \in IngestionOps =>
           \A j \in DOMAIN last'.adds : last'.adds[j] \notin StoredTexts(store)
    /\ (CallChunks(last').ok /\ last'.res.kind = "success") =>
           /\ last'.res.chunks_stored = Cardinality(NewTexts(last', store))
           /\ StoredTexts(store') = StoredTexts(store) \cup NewTexts(last', store)
           /\ \A e \in ChunkEntries(store) : store'[e] = store[e]

\* C24: the fingerprint is the MD5 of the chunk text before the prefix of the
\* source is put in front of it, in the file path and in the website path, and
\* both paths use one Dedup Set.  So the fingerprint of every stored chunk text
\* is in the Dedup Set, no ingestion call hands add a text the store holds
\* from any source, and a successful file or website call stores exactly the
\* distinct texts among its chunks that the store did not hold, whatever the
\* file name or the page title.
C24_OneDedupSetForAllSources == [][C24_Step]_vars

\* C24 witness: the page titled 't' whose text is 'a' was submitted after a
\* file with the chunk 'a' was ingested: the page's chunk was skipped and the
\* only entry for 'a' is the file's
C24_Witness ==
    /\ last.op = "process_website"
    /\ last.res.kind = "success"
    /\ last.res.title = <<"t">>
    /\ last.res.chunks_processed = 1
    /\ last.res.chunks_stored = 0
    /\ \E e \in ChunkEntries(store) : e.chunk = <<"a">> /\ e.metadata.type = "file"
    /\ \A e \in ChunkEntries(store) : e.chunk = <<"a">> => e.metadata.type = "file"

-----------------------------------------------------------------------------
(* Properties of the accumulation in _chunk_content, checked under ChunkSpec *)

\* the first paragraph of the buffer that holds paragraph k, when a new buffer
\* starts after paragraph c for each c in cuts
RunStart(cuts, k) ==
    IF \E c \in cuts : c < k
    THEN 1 + CHOOSE c \in cuts : c < k /\ \A d \in cuts : d < k => d <= c
    ELSE 1

\* the sum of Len(paragraph) + Len(separator) from paragraph j to paragraph k
RECURSIVE BufferLen(_, _, _)
BufferLen(paragraphs, j, k) ==
    IF j > k THEN 0
    ELSE Len(paragraphs[j]) + Len(ParaSep) + BufferLen(paragraphs, j + 1, k)

\* the buffer is cut after paragraph k exactly when its length up to that
\* paragraph, separators included, plus the length of the next paragraph is
\* not strictly below chunk_size
Greedy(paragraphs, cuts, chunk_size) ==
    \A k \in 1..(Len(paragraphs) - 1) :
        k \in cuts <=>
            BufferLen(paragraphs, RunStart(cuts, k), k) + Len(paragraphs[k + 1])
                >= chunk_size

\* C25: _chunk_content accumulates greedily: a paragraph is appended to the
\* buffer iff the length of the buffer, separators included, plus the length
\* of the paragraph is strictly below chunk_size; otherwise the buffer is
\* sealed and a new one starts with the paragraph.  So for every chunk but the
\* last, the length of its sealed buffer plus the length of the first
\* paragraph of the next chunk is at least chunk_size.
C25_GreedyAccumulation ==
    c_pc = "done" =>
        \E cuts \in SUBSET (1..(Len(Paragraphs) - 1)) :
            /\ Greedy(Paragraphs, cuts, c_size)
            /\ c_chunks = TrimmedGroups(Paragraphs, 2, cuts, <<Paragraphs[1]>>)
            /\ Len(c_chunks) = Cardinality(cuts) + 1
            /\ \A k \in cuts :
                   BufferLen(Paragraphs, RunStart(cuts, k), k) + Len(Paragraphs[k + 1])
                       >= c_size

\* C25 witness: the buffer 'a' plus separator has 3 characters and the next
\* paragraph 1, which is not strictly below a chunk_size of 4: two chunks
C25_Witness ==
    /\ c_pc = "done"
    /\ c_content = <<"a", "\n", "\n", "b">>
    /\ c_size = 4
    /\ c_chunks = <<<<"a">>, <<"b">>>>

\* C26 as stated: only non-empty buffers are sealed, so every chunk
\* _chunk_content returns is a non-empty string, for any text, the empty text,
\* whitespace-only text and text that begins with blank lines included
C26_ChunksAreNonEmpty ==
    c_pc = "done" => \A i \in DOMAIN c_chunks : c_chunks[i] # <<>>

-----------------------------------------------------------------------------
(* Properties of the result of process_query, checked under QuerySpec *)

\* C27 as stated: process_query never raises and, whatever the memory search,
\* the knowledge-base lookup, the model and the save did, its result has the
\* fields response, memories_used, knowledge_used, context and
\* knowledge_context, the response being an error message when the call of the
\* model failed
C27_SameFieldsInEveryResult ==
    Called =>
        /\ DOMAIN pq.out.res = {"response", "memories_used", "knowledge_used",
                                "context", "knowledge_context"}
        /\ pq.llm.kind = "raised" =>
               pq.out.res.response = <<"E", "r", "r", "o", "r", " ", "p", "r", "o", "c", "e", "s", "s", "i", "n", "g", " ", "q", "u", "e", "r", "y", ":", " ">> \o pq.llm.error

-----------------------------------------------------------------------------
(* Properties of the branch of a working copy, checked under Spec *)

\* C28 as stated: whatever the branches asked for in the process_git_repo
\* calls on one URL, the branch a successful result reports is the branch of
\* the working copy that the call ingested
C28_ReportedBranchIsIngestedBranch ==
    (last.op = "process_git_repo" /\ last.res.kind = "success") =>
        /\ fs[HeadFile] = TextFile(last.res.branch)
        /\ fs[RepoFile] = RemoteFile(last.res.branch)

-----------------------------------------------------------------------------
(* Properties of sync_cache_to_knowledge, checked under Spec *)

\* the cache entries of a list that have a query and a response
Complete(cache_entries) ==
    SelectSeq(cache_entries, LAMBDA entry : entry.query # <<>> /\ entry.response # <<>>)

\* the store entry made from a cache entry
QaEntry(entry) ==
    [memory_content |-> QaMemoryContent(entry.query, entry.response),
     chunk          |-> <<>>,
     user_id        |-> "knowledge_base",
     metadata       |-> [source |-> "user_cache", type |-> "qa_pair",
                         session_id |-> entry.session_id]]

\* how many times an entry is in a sequence of cache entries
Occurrences(cache_entries, entry) ==
    Cardinality({i \in DOMAIN cache_entries : cache_entries[i] = entry})

C29_Step ==
    last'.op = "sync_cache_to_knowledge" =>
        /\ processed_hashes' = processed_hashes
        /\ stats_cache' = stats_cache
        /\ \A e \in ChunkEntries(store) : store'[e] = store[e]
        /\ last'.res.kind = "success" =>
               /\ last'.res.synced_count = Len(Complete(last'.arg))
               /\ last'.res.total_entries = Len(last'.arg)
               /\ last'.res.synced_count <= last'.res.total_entries
               /\ Len(last'.adds) = Len(Complete(last'.arg))
               /\ BagCardinality(store')
                      = BagCardinality(store) + Len(Complete(last'.arg))
               /\ \A i \in DOMAIN Complete(last'.arg) :
                      CopiesIn(QaEntry(Complete(last'.arg)[i]), store')
                          = CopiesIn(QaEntry(Complete(last'.arg)[i]), store)
                                + Occurrences(Complete(last'.arg), Complete(last'.arg)[i])
        /\ last'.res.kind # "success" =>
               /\ last'.res.kind = "raised"
               /\ BagCardinality(store') = BagCardinality(store) + Len(last'.adds) - 1

\* C29: a sync_cache_to_knowledge call that returns stores one entry for each
\* cache entry that has a non-empty query and a non-empty response and skips
\* the others: synced_count is the number of such entries and is at most
\* total_entries, the length of the list.  The call leaves the Dedup Set and
\* the Stats Cache unchanged, so an entry synced twice is stored twice.  (A
\* call in which an add raises has stored the entries before that add.)
C29_SyncBypassesBookkeeping == [][C29_Step]_vars

\* C29 witness: the same complete entry was synced twice and the store holds it
\* twice, with an empty Dedup Set and no chunk counted
C29_Witness ==
    /\ last.op = "sync_cache_to_knowledge"
    /\ last.res.kind = "success"
    /\ last.res.synced_count >= 1
    /\ CopiesIn(QaEntry(CompleteEntry), store) = 2
    /\ processed_hashes = {}
    /\ stats_cache.total_chunks = 0

-----------------------------------------------------------------------------
(* Properties of the session cache, checked under ApiSpec *)

\* the cache of a session, empty when the session has none
CacheOf(cache, session_id) == Get(cache, session_id, <<>>)

\* every session other than session_id has the cache it had
OthersUnchanged(session_id) ==
    \A s \in SessionIds \ {session_id} :
        /\ s \in DOMAIN session_cache' <=> s \in DOMAIN session_cache
        /\ CacheOf(session_cache', s) = CacheOf(session_cache, s)

\* the request answered in this step is an accepted query
QueryWasAccepted == http'.endpoint = "handle_query" /\ http'.status = 200 /\ now' # now

\* an accepted query: its entry is the newest of the session's cache, the
\* entries before it are the most recent ones the cache held, in their order
C30_QueryStep ==
    QueryWasAccepted =>
        LET sid == session'[http'.client]
            old == CacheOf(session_cache, sid)
            new == CacheOf(session_cache', sid)
        IN  /\ sid \in SessionIds
            /\ session[http'.client] # "None" => sid = session[http'.client]
            /\ Len(new) = Min(Len(old) + 1, SessionCacheLimit)
            /\ new[Len(new)].query = Strip(http'.data.query.value)
            /\ new[Len(new)].response = http'.body.response
            /\ new[Len(new)].id = http'.body.cache_id
            /\ new[Len(new)].timestamp = now
            /\ \A i \in 1..(Len(new) - 1) :
                   new[i] = old[Len(old) - (Len(new) - 1) + i]
            /\ OthersUnchanged(sid)

\* get_cache answers with the caller's entries, newest first, and changes nothing
C30_GetStep ==
    (http'.endpoint = "get_cache" /\ now' # now) =>
        LET cache == IF session[http'.client] = "None" THEN <<>>
                     ELSE CacheOf(session_cache, session[http'.client])
        IN  /\ Len(http'.body.cache) = Len(cache)
            /\ \A i \in DOMAIN cache : http'.body.cache[i] = cache[Len(cache) + 1 - i]
            /\ session_cache' = session_cache
            /\ session' = session

\* clear_cache removes the entries of the caller's session and no others
C30_ClearStep ==
    (http'.endpoint = "clear_cache" /\ now' # now) =>
        /\ CacheOf(session_cache', session[http'.client]) = <<>>
        /\ OthersUnchanged(session[http'.client])
        /\ session' = session

\* no other request changes a cache
C30_OtherStep ==
    (~QueryWasAccepted /\ http'.endpoint # "clear_cache") =>
        session_cache' = session_cache

\* each cache holds at most SessionCacheLimit entries, in arrival order
C30_Bounded ==
    \A s \in DOMAIN session_cache' :
        /\ Len(session_cache'[s]) <= SessionCacheLimit
        /\ \A i, j \in DOMAIN session_cache'[s] :
               i < j => session_cache'[s][i].timestamp < session_cache'[s][j].timestamp

\* C30: after any sequence of query, get-cache and clear-cache requests each
\* session's cache holds at most 50 entries (SessionCacheLimit, scaled), which
\* are the most recent accepted queries of the session in arrival order: one
\* entry is appended per accepted query, whether or not the call of the model
\* succeeded.  get_cache returns them newest first; clear_cache removes exactly
\* the entries of the caller's session and leaves the other caches unchanged.
C30_SessionCache ==
    [][C30_QueryStep /\ C30_GetStep /\ C30_ClearStep /\ C30_OtherStep /\ C30_Bounded]_vars

\* C30 witness: a session filled its cache, the call of the model failing on
\* its last query: get_cache returned the full cache newest first, the entry
\* of the failed call in front
C30_Witness ==
    /\ http.endpoint = "get_cache"
    /\ Len(http.body.cache) = SessionCacheLimit
    /\ http.body.cache[1].response = ErrorAnswer(<<"e">>).response
    /\ \A i \in DOMAIN http.body.cache :
           http.body.cache[i].timestamp >= http.body.cache[Len(http.body.cache)].timestamp
    /\ http.body.cache = Reversed(session_cache[session[http.client]])

=============================================================================
